---- MODULE Spec2Model ----
(***************************************************************************)
(* Model of the query-answering pipeline of nextjs-openai-doc-search:      *)
(*   - context assembly (lib/rag.ts buildContextFromSections and the       *)
(*     inline loop of pages/api/vector-search.ts),                         *)
(*   - intent classification (classifyIntentKorean and the handler's       *)
(*     inline block, both around tryParseIntentJson),                      *)
(*   - the API handler and the plain-text citation protocol it writes.     *)
(*                                                                         *)
(* An optional JavaScript value (undefined / null or a value) is the empty *)
(* tuple <<>> or the one-element tuple <<v>>.                              *)
(***************************************************************************)
EXTENDS Integers, Sequences, FiniteSets, TLC

VARIABLES
    \* ---- context assembly (one run of the for loop over the sections)
    impl,        \* which copy of the loop runs: "lib" (rag.ts) or "inline" (handler)
    sections,    \* the candidate passages given to the loop
    ctx,         \* the loop's locals: i, tokenCount, contextText, usedSections, done
    \* ---- intent classification
    ci,          \* classifyIntentKorean / inline block: position, locals, result
    \* ---- the API handler
    pc,          \* position of the handler: the await it is suspended at
    req,         \* the request (method, body) and the process environment
    calls,       \* external calls issued so far, in order
    res,         \* the response object (headers, status, writes, json body, ended)
    hv,          \* handler locals that live across awaits
    upstream,    \* the model's response stream: chunks, position, failure
    sink,        \* the client side of the socket: closed, waiting for drain
    returned,    \* external calls that have completed, in order, with their outcome
    \* ---- retrieval in the library
    ms,          \* matchSectionsForQuery: position, rpc result, returned sections
    \* ---- the client (SearchDialog)
    cl,          \* the dialog: position, received text, decoded message, history
    \* ---- the server process
    proc         \* environment, cached configuration and client handles, calls made

ctxVars == <<impl, sections, ctx>>
ciVars == <<ci>>
handlerVars == <<pc, req, calls, res, hv, upstream, sink, returned>>
msVars == <<ms>>
clVars == <<cl>>
vars == <<proc, ms, cl, returned, impl, sections, ctx, ci, pc, req, calls, res, hv, upstream, sink>>

(***************************************************************************)
(* Bounds of the model.                                                    *)
(***************************************************************************)
MaxSections == 3
MaxRawLen == 4
MaxPageSections == 2
MaxChunks == 3
MaxModerationResults == 2

(***************************************************************************)
(* Sequence helpers.                                                       *)
(***************************************************************************)
SeqsUpTo(S, n) == UNION {[1..k -> S] : k \in 0..n}

RECURSIVE SumSeq(_)
SumSeq(s) == IF s = <<>> THEN 0 ELSE Head(s) + SumSeq(Tail(s))

(***************************************************************************)
(* Passages.  The tokenizer (gpt-tokenizer's encode) is a deterministic    *)
(* function of the content; it is a table over the contents of the model.  *)
(***************************************************************************)
TOKEN_CEILING == 1500

Contents == {"", " ", "c1", " c700 ", "c799", "c800", "c1499", "c1500"}

\* encodeTokens(content).length
EncodeTokensLength(c) ==
    CASE c = ""       -> 0
      [] c = " "      -> 1
      [] c = "c1"     -> 1
      [] c = " c700 " -> 700
      [] c = "c799"   -> 799
      [] c = "c800"   -> 800
      [] c = "c1499"  -> 1499
      [] c = "c1500"  -> 1500

\* content.length (UTF-16 code units)
StringLength(c) ==
    CASE c = ""       -> 0
      [] c = " "      -> 1
      [] c = "c1"     -> 4
      [] c = " c700 " -> 2802
      [] c = "c799"   -> 3196
      [] c = "c800"   -> 3200
      [] c = "c1499"  -> 5996
      [] c = "c1500"  -> 6000

\* content.trim()
StringTrim(c) ==
    CASE c = " "      -> ""
      [] c = " c700 " -> "c700"
      [] OTHER        -> c

\* An entry of the list returned by the vector store.  isNull: the entry
\* itself is null/undefined.
NullSection ==
    [isNull |-> TRUE, id |-> <<>>, path |-> <<>>, heading |-> <<>>,
     similarity |-> <<>>, content |-> <<>>]

Section(id, path, heading, similarity, content) ==
    [isNull |-> FALSE, id |-> id, path |-> path, heading |-> heading,
     similarity |-> similarity, content |-> content]

\* Passages with full metadata and every content, passages with one short
\* content and missing / falsy / present metadata, and the null entry.
\* Similarity is in percent.
SectionSet ==
    {Section(<<7>>, <<"/docs/a">>, <<"H">>, <<80>>, c) :
        c \in {<<>>} \cup {<<x>> : x \in Contents}}
    \cup {Section(<<>>, <<>>, <<>>, <<>>, <<"c1">>),
          Section(<<0>>, <<"">>, <<"">>, <<0>>, <<"c1">>),
          NullSection}

\* A loop that also drops a passage without a path
NoContentOrNoPath(s) ==
    s.isNull \/ s.content = <<>> \/ s.content[1] = "" \/ s.path = <<>>

\* !s || !s.content
NoContent(s) == s.isNull \/ s.content = <<>> \/ s.content[1] = ""

\* a ?? b
Nullish(a, b) == IF a = <<>> THEN b ELSE a[1]

\* a || b, for a number
OrNumber(a, b) == IF a = <<>> \/ a[1] = 0 THEN b ELSE a[1]

\* a || b, for a string
OrString(a, b) == IF a = <<>> \/ a[1] = "" THEN b ELSE a[1]

\* usedSections.push({...}) of lib/rag.ts: defaults with ??
UsedSectionLib(s, i) ==
    [id |-> Nullish(s.id, i),
     path |-> Nullish(s.path, "unknown"),
     heading |-> Nullish(s.heading, "NO_TITLE"),
     similarity |-> Nullish(s.similarity, 0),
     content_length |-> StringLength(s.content[1]),
     token_count |-> EncodeTokensLength(s.content[1])]

\* usedSections.push({...}) of the handler: defaults with ||
UsedSectionInline(s, i) ==
    [id |-> OrNumber(s.id, i),
     path |-> OrString(s.path, "unknown"),
     heading |-> OrString(s.heading, "NO_TITLE"),
     similarity |-> OrNumber(s.similarity, 0),
     content_length |-> StringLength(s.content[1]),
     token_count |-> EncodeTokensLength(s.content[1])]

UsedSection(which, s, i) ==
    IF which = "lib" THEN UsedSectionLib(s, i) ELSE UsedSectionInline(s, i)

\* The locals before the loop: tokenCount = 0, contextText = '', usedSections = [].
\* contextText is the list of its pieces; i is the 0-based loop index.
CtxStart ==
    [i |-> 0, tokenCount |-> 0, contextText |-> <<>>, usedSections |-> <<>>,
     done |-> FALSE]

ReachesCeilingOffByOne(tokenCount, sectionTokenCount) ==
    tokenCount + sectionTokenCount > TOKEN_CEILING

\* if (tokenCount + sectionTokenCount >= 1500) break
ReachesCeiling(tokenCount, sectionTokenCount) ==
    tokenCount + sectionTokenCount >= TOKEN_CEILING

SkipAndContinue(c) == [c EXCEPT !.i = @ + 1]

\* break: the loop is left
BreakLoop(c) == [c EXCEPT !.done = TRUE]

\* One evaluation of the loop condition and, if it holds, of the loop body.
ContextIteration(which, secs, c) ==
    IF c.i >= Len(secs) THEN [c EXCEPT !.done = TRUE]
    ELSE LET s == secs[c.i + 1] IN
         IF NoContent(s) THEN [c EXCEPT !.i = @ + 1]
         ELSE LET n == EncodeTokensLength(s.content[1]) IN
              IF ReachesCeiling(c.tokenCount, n) THEN BreakLoop(c)
              ELSE [c EXCEPT
                      !.i = @ + 1,
                      !.tokenCount = @ + n,
                      !.contextText = @ \o <<StringTrim(s.content[1]), "\n---\n">>,
                      !.usedSections = Append(@, UsedSection(which, s, c.i))]

\* The whole loop, from given locals to the locals at loop exit.
RECURSIVE RunContextLoop(_, _, _)
RunContextLoop(which, secs, c) ==
    IF c.done THEN c ELSE RunContextLoop(which, secs, ContextIteration(which, secs, c))

\* buildContextFromSections(sections) of lib/rag.ts
BuildContextFromSections(secs) == RunContextLoop("lib", secs, CtxStart)

\* the handler's inline loop over pageSections
InlineContext(secs) == RunContextLoop("inline", secs, CtxStart)

(***************************************************************************)
(* Classifier output and its parsing.  The classifier's output text is a   *)
(* sequence of lexical pieces:                                             *)
(*   "{" "}" ","      the JSON punctuation characters                      *)
(*   "i:<label>"      the member "intent":"<label>"  ("i:" has label "")   *)
(*   "c"              the member "confidence":0.9 (the number 90, percent) *)
(*   "p"              a word of prose                                      *)
(* The empty sequence is the empty string.                                 *)
(***************************************************************************)
IntentLabels == {"greeting", "smalltalk", "non_legal", "other", "legal_question", "weird"}

IntentLabelOf(tok) ==
    CASE tok = "i:greeting"       -> "greeting"
      [] tok = "i:smalltalk"      -> "smalltalk"
      [] tok = "i:non_legal"      -> "non_legal"
      [] tok = "i:other"          -> "other"
      [] tok = "i:legal_question" -> "legal_question"
      [] tok = "i:weird"          -> "weird"
      [] tok = "i:"               -> ""

IntentTokens ==
    {"i:greeting", "i:smalltalk", "i:non_legal", "i:other", "i:legal_question",
     "i:weird", "i:"}

MemberTokens == IntentTokens \cup {"c"}

\* JSON grammar restricted to these pieces: an object of members separated by
\* commas.  Nothing else over these pieces is a JSON text.
IsObjectText(s) ==
    /\ Len(s) >= 2
    /\ s[1] = "{"
    /\ s[Len(s)] = "}"
    /\ LET inner == SubSeq(s, 2, Len(s) - 1) IN
       \/ inner = <<>>
       \/ /\ Len(inner) % 2 = 1
          /\ \A k \in 1..Len(inner) :
                IF k % 2 = 1 THEN inner[k] \in MemberTokens ELSE inner[k] = ","

\* The object a JSON object text denotes; a repeated key keeps its last value.
ObjectOf(s) ==
    LET is == {k \in 1..Len(s) : s[k] \in IntentTokens}
        cs == {k \in 1..Len(s) : s[k] = "c"}
        last(S) == CHOOSE k \in S : \A j \in S : j <= k
    IN [intent |-> IF is = {} THEN <<>> ELSE <<IntentLabelOf(s[last(is)])>>,
        confidence |-> IF cs = {} THEN <<>> ELSE <<90>>]

NoObject == [intent |-> <<>>, confidence |-> <<>>]

\* raw.match(/\{[\s\S]*\}/): from the first "{" to the last "}" after it
\* (the quantifier is greedy); <<>> when there is no match, else <<m[0]>>.
BraceMatch(raw) ==
    LET opens == {k \in 1..Len(raw) : raw[k] = "{"}
        closes == {k \in 1..Len(raw) : raw[k] = "}"}
        first == CHOOSE k \in opens : \A j \in opens : k <= j
        last == CHOOSE k \in closes : \A j \in closes : j <= k
    IN IF opens # {} /\ closes # {} /\ first < last
       THEN <<SubSeq(raw, first, last)>>
       ELSE <<>>

\* tryParseIntentJson(raw).  kind "value": an object was returned; "null":
\* null was returned; "throw": the JSON.parse in the catch block threw.
TryParseIntentJson(raw) ==
    IF IsObjectText(raw) THEN [kind |-> "value", value |-> ObjectOf(raw)]
    ELSE LET m == BraceMatch(raw) IN
         IF m # <<>>
         THEN IF IsObjectText(m[1])
              THEN [kind |-> "value", value |-> ObjectOf(m[1])]
              ELSE [kind |-> "throw", value |-> NoObject]
         ELSE [kind |-> "null", value |-> NoObject]

\* The result of one classifier call: the call threw, or it returned an
\* output text (absent: <<>>).
CallThrew == [threw |-> TRUE, text |-> <<>>]
CallReturned(text) == [threw |-> FALSE, text |-> text]

\* let intent = 'legal_question'; let confidence = 0
\* pc: "start", "fallback" (awaiting the second call), "returned", "threw".
\* output: the text the value was decided from; calls: classifier calls issued.
ClassifierStart(which) ==
    [impl |-> which, pc |-> "start", intent |-> "legal_question", confidence |-> 0,
     output |-> <<>>, callThrew |-> FALSE, calls |-> 0]

\* The body of a try block: the call, the parse and the two assignments.
\* raised: an exception left the block.
ClassifyAttempt(c, o) ==
    IF o.threw
    THEN [raised |-> TRUE,
          c |-> [c EXCEPT !.calls = @ + 1, !.callThrew = TRUE, !.output = <<>>]]
    ELSE LET raw == Nullish(o.text, <<>>)
             parsed == TryParseIntentJson(raw)
             seen == [c EXCEPT !.calls = @ + 1, !.callThrew = FALSE, !.output = raw]
         IN IF parsed.kind = "throw"
            THEN [raised |-> TRUE, c |-> seen]
            ELSE [raised |-> FALSE,
                  c |-> [seen EXCEPT
                     \* if (parsed?.intent) intent = String(parsed.intent)
                     !.intent = IF parsed.value.intent # <<>> /\ parsed.value.intent[1] # ""
                                THEN parsed.value.intent[1] ELSE @,
                     \* if (typeof parsed?.confidence === 'number') confidence = ...
                     !.confidence = IF parsed.value.confidence # <<>>
                                    THEN parsed.value.confidence[1] ELSE @]]

RethrowClassifierFailure(c) == [c EXCEPT !.pc = "threw"]

\* catch (e) { console.warn(...) }: the failure is dropped, the defaults stay
AbsorbClassifierFailure(c) == [c EXCEPT !.pc = "returned"]

\* The handler's inline block: one attempt, its catch absorbs.
ClassifyInline(c, o) ==
    LET a == ClassifyAttempt(c, o) IN
    IF a.raised THEN AbsorbClassifierFailure(a.c) ELSE [a.c EXCEPT !.pc = "returned"]

\* classifyIntentKorean, first try block: its catch starts the fallback call,
\* which reads nothing of the first attempt.
ClassifyFirst(c, o) ==
    LET a == ClassifyAttempt(c, o) IN
    IF a.raised
    THEN [a.c EXCEPT !.pc = "fallback", !.output = <<>>, !.callThrew = FALSE]
    ELSE [a.c EXCEPT !.pc = "returned"]

ClassifyFallbackAgain(c, o) ==
    LET a == ClassifyAttempt(c, o) IN
    IF a.raised THEN [a.c EXCEPT !.pc = "fallback"] ELSE [a.c EXCEPT !.pc = "returned"]

\* classifyIntentKorean, the nested try block in the catch.
ClassifyFallback(c, o) ==
    LET a == ClassifyAttempt(c, o) IN
    IF a.raised THEN AbsorbClassifierFailure(a.c) ELSE [a.c EXCEPT !.pc = "returned"]

(***************************************************************************)
(* The response object (NextApiResponse) and the helpers that write the    *)
(* plain-text citation protocol.  A string is the list of its pieces; a    *)
(* write is recorded as a chunk [kind, text, sources, query, n]:           *)
(*   "citations"     <!-- CITATIONS: {type, sources, query, timestamp} --> *)
(*   "body"          answer text                                           *)
(*   "trailer"       <!-- END_CITATIONS: n sources used -->                *)
(*   "stream_error"  <!-- STREAM_ERROR: Streaming failed -->               *)
(* The timestamp of the preamble is left out.                              *)
(***************************************************************************)
Chunk(kind, text, sources, query, n) ==
    [kind |-> kind, text |-> text, sources |-> sources, query |-> query, n |-> n]

CitationsChunk(sources, query) == Chunk("citations", <<>>, sources, query, 0)
BodyChunk(text) == Chunk("body", text, <<>>, "", 0)
TrailerChunk(n) == Chunk("trailer", <<>>, <<>>, "", n)
StreamErrorChunk == Chunk("stream_error", <<>>, <<>>, "", 0)

\* A fresh response.  contentType "none": no header sent; "implicit": headers
\* went out with the first write, without writeHead.  fault: what a call on
\* the response threw.  headWrites: how many times a header block went out;
\* endCalls: how many times the response was completed; lateWrites: writes
\* attempted after that.
FreshResponse ==
    [headersSent |-> FALSE, statusCode |-> 0, contentType |-> "none",
     json |-> <<>>, wire |-> <<>>, ended |-> FALSE, fault |-> "none",
     headWrites |-> 0, endCalls |-> 0, lateWrites |-> 0]

\* res.write(chunk): the first write sends the headers if none were sent
ResWrite(r, chunk) ==
    [r EXCEPT !.wire = Append(@, chunk),
              !.headersSent = TRUE,
              !.statusCode = IF r.headersSent THEN @ ELSE 200,
              !.contentType = IF r.headersSent THEN @ ELSE "implicit",
              !.headWrites = IF r.headersSent THEN @ ELSE @ + 1,
              !.lateWrites = IF r.ended THEN @ + 1 ELSE @]

\* res.end(): sends the headers (200, no Content-Type) if none were sent
ResEnd(r) ==
    [r EXCEPT !.ended = TRUE, !.headersSent = TRUE,
              !.statusCode = IF r.headersSent THEN @ ELSE 200,
              !.contentType = IF r.headersSent THEN @ ELSE "implicit",
              !.headWrites = IF r.headersSent THEN @ ELSE @ + 1,
              !.endCalls = @ + 1]

\* res.status(code).json(body): throws ERR_HTTP_HEADERS_SENT once headers are out
ResJson(r, code, body) ==
    IF r.headersSent
    THEN [r EXCEPT !.fault = "ERR_HTTP_HEADERS_SENT"]
    ELSE [r EXCEPT !.headersSent = TRUE, !.statusCode = code,
                   !.contentType = "application/json",
                   !.json = <<body>>, !.ended = TRUE, !.headWrites = @ + 1,
                   !.endCalls = @ + 1]

\* writeHead without the guard: a header block on every call
WritePlainTextHeadersUnguarded(r) ==
    [r EXCEPT !.headersSent = TRUE, !.statusCode = 200,
              !.contentType = "text/plain", !.headWrites = @ + 1]

\* writePlainTextHeaders(res)
WritePlainTextHeaders(r) ==
    IF ~r.headersSent
    THEN [r EXCEPT !.headersSent = TRUE, !.statusCode = 200,
                   !.contentType = "text/plain", !.headWrites = @ + 1]
    ELSE r

\* writeCitations(res, sources, query)
WriteCitations(r, sources, query) == ResWrite(r, CitationsChunk(sources, query))

SendTextWithoutTrailer(r, body, sources, query) ==
    ResEnd(ResWrite(WriteCitations(WritePlainTextHeaders(r), sources, query),
                    BodyChunk(body)))

\* sendTextWithCitations without its res.end()
SendTextLeftOpen(r, body, sources, query) ==
    ResWrite(
      ResWrite(WriteCitations(WritePlainTextHeaders(r), sources, query),
               BodyChunk(body)),
      TrailerChunk(Len(sources)))

\* sendTextWithCitations(res, body, sources, query)
SendTextWithCitations(r, body, sources, query) ==
    ResEnd(
      ResWrite(
        ResWrite(WriteCitations(WritePlainTextHeaders(r), sources, query),
                 BodyChunk(body)),
        TrailerChunk(Len(sources))))

\* parseBooleanFlag(value): value === true || value === 'true'
ParseBooleanFlag(value) == value = <<"bool:true">> \/ value = <<"str:true">>

(***************************************************************************)
(* Errors and the handler's outer catch.                                   *)
(***************************************************************************)
UserError(message, data) == [class |-> "UserError", message |-> message, data |-> data]
ApplicationError(message) ==
    [class |-> "ApplicationError", message |-> message, data |-> <<>>]
OtherError == [class |-> "Error", message |-> "upstream failure", data |-> <<>>]

GENERIC_ERROR == "There was an error processing your request"

JsonBody(error, data) == [error |-> error, data |-> data]

OuterCatchWithDetail(r, err) ==
    IF err.class = "UserError"
    THEN ResJson(r, 400, JsonBody(err.message, err.data))
    ELSE ResJson(r, 500, JsonBody(err.message, <<>>))

\* catch (err) { ... } of the handler
OuterCatch(r, err) ==
    IF err.class = "UserError"
    THEN ResJson(r, 400, JsonBody(err.message, err.data))
    ELSE ResJson(r, 500, JsonBody(GENERIC_ERROR, <<>>))

(***************************************************************************)
(* The handler's inputs: the request, the environment and what each        *)
(* external call returns.                                                  *)
(***************************************************************************)
Env(k, u, s) == [openAiKey |-> k, supabaseUrl |-> u, supabaseServiceKey |-> s]

Prompts == {<<>>, <<"">>, <<"  ">>, <<" q ">>}

\* query.trim()
TrimPrompt(q) ==
    CASE q = ""    -> ""
      [] q = "  "  -> ""
      [] q = " q " -> "q"
      [] OTHER     -> q

StreamFlags == {<<>>, <<"bool:true">>, <<"str:true">>, <<"bool:false">>, <<"str:false">>}

Bodies == {<<>>} \cup {<<[prompt |-> q, stream |-> f]>> : q \in Prompts, f \in StreamFlags}

Requests ==
    {[method |-> m, env |-> Env(k, u, s), body |-> b] :
        m \in {"POST", "GET"}, k \in BOOLEAN, u \in BOOLEAN, s \in BOOLEAN,
        b \in Bodies}

\* A result container of an upstream response: absent, not an array, or an
\* array of items.
Absent == [kind |-> "absent", items |-> <<>>]
NotArray == [kind |-> "notArray", items |-> <<>>]
ArrayOf(items) == [kind |-> "array", items |-> items]

\* !x || !Array.isArray(x) || x.length === 0
InvalidContainer(x) == x.kind # "array" \/ Len(x.items) = 0

\* What the handler holds of a container it received: its kind and whether
\* it is empty.
Received(x) == <<[kind |-> x.kind, empty |-> Len(x.items) = 0]>>

ModerationResult(flagged, categories) == [flagged |-> flagged, categories |-> categories]

ModerationResults ==
    {ModerationResult(FALSE, {}), ModerationResult(TRUE, {"violence"})}

ModerationOutcomes ==
    {[threw |-> TRUE, results |-> Absent]}
    \cup {[threw |-> FALSE, results |-> c] :
            c \in {Absent, NotArray}
                  \cup {ArrayOf(x) : x \in SeqsUpTo(ModerationResults, MaxModerationResults)}}

\* The classifier outputs the handler is run with: every label alone in an
\* object, and outputs that do not parse.
HandlerClassifierOutcomes ==
    {CallThrew, CallReturned(<<>>), CallReturned(<<<<"p">>>>),
     CallReturned(<<<<"{", "c", "}">>>>), CallReturned(<<<<"{", "p", "}">>>>)}
    \cup {CallReturned(<<<<"{", x, ",", "c", "}">>>>) : x \in IntentTokens}

\* The secondary (non-legal) completion and the non-streaming completion:
\* choices?.[0]?.message?.content
CompletionOutcomes ==
    {[threw |-> TRUE, content |-> <<>>],
     [threw |-> FALSE, content |-> <<>>],
     [threw |-> FALSE, content |-> <<"answer">>]}

EmbeddingOutcomes ==
    {[threw |-> TRUE, data |-> Absent]}
    \cup {[threw |-> FALSE, data |-> c] :
            c \in {Absent, NotArray, ArrayOf(<<>>), ArrayOf(<<"embedding">>)}}

HandlerSectionSet ==
    {NullSection,
     Section(<<7>>, <<"/docs/a">>, <<"H">>, <<80>>, <<" c700 ">>),
     Section(<<>>, <<>>, <<>>, <<>>, <<"c800">>)}

MatchOutcomes ==
    {[error |-> TRUE, data |-> Absent]}
    \cup {[error |-> FALSE, data |-> c] :
            c \in {Absent, NotArray}
                  \cup {ArrayOf(x) : x \in SeqsUpTo(HandlerSectionSet, MaxPageSections)}}

\* chunk.choices?.[0]?.delta?.content
Deltas == {<<>>, <<"">>, <<"a">>, <<"b">>}

\* The streaming create call: it rejects, or it resolves to a stream that
\* has yielded nothing yet.  The stream then yields up to MaxChunks chunks,
\* one per iteration, and ends or throws at any point.
StreamOutcomes ==
    {[threw |-> TRUE, chunks |-> <<>>, fails |-> FALSE],
     [threw |-> FALSE, chunks |-> <<>>, fails |-> FALSE]}

SinkOpen == [closed |-> FALSE, needDrain |-> FALSE]

NoStream == [open |-> FALSE, chunks |-> <<>>, fails |-> FALSE, pos |-> 0]

\* The handler's locals that are read after an await.
HandlerLocals ==
    [wantsStream |-> FALSE, sanitizedQuery |-> "", results |-> <<>>,
     classifiedIntent |-> "legal_question", classifiedConfidence |-> 0,
     pageSectionsLength |-> <<>>, moderationResults |-> <<>>,
     embeddingData |-> <<>>, usedSections |-> <<>>, contextText |-> <<>>]

GREETING_ANSWER == <<"GREETING_TEMPLATE">>
GUIDANCE_TAIL == <<"GUIDANCE_TAIL">>
NON_LEGAL_FALLBACK == <<"APOLOGY_AND_HANDOFF_TEMPLATE">>

(***************************************************************************)
(* Idle values of the parts a specification does not exercise.             *)
(***************************************************************************)
CiIdle == [pc |-> "idle"]
MsIdle == [pc |-> "idle"]
ClIdle == [pc |-> "idle"]
ProcIdle == [pc |-> "idle"]
HandlerIdle ==
    /\ pc = "idle"
    /\ returned = <<>>
    /\ req = [method |-> "POST", env |-> Env(TRUE, TRUE, TRUE), body |-> <<>>]
    /\ calls = <<>>
    /\ res = FreshResponse
    /\ hv = HandlerLocals
    /\ upstream = NoStream
    /\ sink = SinkOpen
CtxIdle ==
    /\ impl = "none"
    /\ sections = <<>>
    /\ ctx = CtxStart
LibIdle ==
    /\ ms = MsIdle
    /\ cl = ClIdle
    /\ proc = ProcIdle

(***************************************************************************)
(* The server process (lib/config.ts, lib/openai.ts,                       *)
(* lib/supabase-server.ts and the module scope of the handler).  The       *)
(* process holds the environment, the three module-level caches and the    *)
(* handler module's own constants; every object built gets a fresh         *)
(* identity, so "the same object" is equality of identities.               *)
(***************************************************************************)
MaxGetterCalls == 3
MaxEnvChanges == 2
MaxRequests == 2

\* process.env values: unset, or one of two settings.
EnvValues == {<<>>, <<"a">>, <<"b">>}
EnvNames == {"OPENAI_KEY", "NEXT_PUBLIC_SUPABASE_URL", "SUPABASE_SERVICE_ROLE_KEY"}
Getters == {"getConfig", "getOpenAIClient", "getServerSupabaseClient"}
ObjectKinds == {"config", "openai", "supabase"}

\* !value of an environment variable: undefined or ''.
Unset(v) == v = <<>> \/ v[1] = ""

\* Module scope once the library modules are loaded: let cachedConfig = null,
\* let openaiSingleton = null, let supabaseSingleton = null; the handler module
\* is not loaded yet.
ProcStart(e) ==
    [pc |-> "running", env |-> e,
     cachedConfig |-> <<>>, openaiSingleton |-> <<>>, supabaseSingleton |-> <<>>,
     handlerModule |-> <<>>,
     nextId |-> 1,
     built |-> [k \in ObjectKinds |-> 0],
     first |-> [g \in Getters |-> <<>>],
     last |-> <<>>,
     getterCalls |-> 0, envChanges |-> 0, requests |-> 0]

\* The outcome of a getter: the process afterwards, whether it threw, and the
\* object it returned.
Outcome(p, threw, value) == [p |-> p, threw |-> threw, value |-> value]

\* An object built now: p with the counter of its kind and nextId advanced.
Built(p, kind) ==
    [p EXCEPT !.nextId = @ + 1, !.built = [@ EXCEPT ![kind] = @ + 1]]

GetConfig(p) ==
    IF p.cachedConfig # <<>> THEN Outcome(p, FALSE, p.cachedConfig)
    ELSE IF \/ Unset(p.env["OPENAI_KEY"])
            \/ Unset(p.env["NEXT_PUBLIC_SUPABASE_URL"])
            \/ Unset(p.env["SUPABASE_SERVICE_ROLE_KEY"])
    THEN Outcome(p, TRUE, <<>>)
    ELSE LET config == [id |-> p.nextId,
                        openaiKey |-> p.env["OPENAI_KEY"][1],
                        supabaseUrl |-> p.env["NEXT_PUBLIC_SUPABASE_URL"][1],
                        supabaseServiceRoleKey
                            |-> p.env["SUPABASE_SERVICE_ROLE_KEY"][1]]
         IN Outcome([Built(p, "config") EXCEPT !.cachedConfig = <<config>>],
                    FALSE, <<config>>)

GetOpenAIClient(p) ==
    IF p.openaiSingleton # <<>> THEN Outcome(p, FALSE, p.openaiSingleton)
    ELSE LET c == GetConfig(p) IN
         IF c.threw THEN c
         ELSE LET client == [id |-> c.p.nextId, apiKey |-> c.value[1].openaiKey]
              IN Outcome([Built(c.p, "openai")
                             EXCEPT !.openaiSingleton = <<client>>],
                         FALSE, <<client>>)

GetServerSupabaseClient(p) ==
    IF p.supabaseSingleton # <<>> THEN Outcome(p, FALSE, p.supabaseSingleton)
    ELSE LET c == GetConfig(p) IN
         IF c.threw THEN c
         ELSE LET client == [id |-> c.p.nextId,
                             url |-> c.value[1].supabaseUrl,
                             key |-> c.value[1].supabaseServiceRoleKey]
              IN Outcome([Built(c.p, "supabase")
                             EXCEPT !.supabaseSingleton = <<client>>],
                         FALSE, <<client>>)

CallGetter(g, p) ==
    CASE g = "getConfig" -> GetConfig(p)
      [] g = "getOpenAIClient" -> GetOpenAIClient(p)
      [] g = "getServerSupabaseClient" -> GetServerSupabaseClient(p)

\* The handler module's scope: the three constants read from the environment
\* when the module is evaluated, and the module's own OpenAI client.
HandlerModule(p) ==
    [openAiKey |-> p.env["OPENAI_KEY"],
     supabaseUrl |-> p.env["NEXT_PUBLIC_SUPABASE_URL"],
     supabaseServiceKey |-> p.env["SUPABASE_SERVICE_ROLE_KEY"],
     openai |-> [id |-> p.nextId, apiKey |-> p.env["OPENAI_KEY"]]]

\* Does a request get past the environment check and the validation of its
\* body, to the line that creates the Supabase client?
ReachesCreateClient(m, valid) ==
    /\ ~Unset(m.openAiKey) /\ ~Unset(m.supabaseUrl) /\ ~Unset(m.supabaseServiceKey)
    /\ valid

\* Some code of the process calls one of the three getters.
Get(g) ==
    /\ proc.pc = "running"
    /\ proc.getterCalls < MaxGetterCalls
    /\ LET o == CallGetter(g, proc) IN
       proc' = [o.p EXCEPT
                  !.getterCalls = @ + 1,
                  !.last = <<[getter |-> g, threw |-> o.threw, value |-> o.value]>>,
                  !.first = IF o.threw \/ @[g] # <<>> THEN @
                            ELSE [@ EXCEPT ![g] = o.value]]
    /\ UNCHANGED <<ms, cl, returned, impl, sections, ctx, ci, pc, req, calls, res,
                   hv, upstream, sink>>

\* The environment changes while the process runs.
SetEnv(n, v) ==
    /\ proc.pc = "running"
    /\ proc.envChanges < MaxEnvChanges
    /\ proc.env[n] # v
    /\ proc' = [proc EXCEPT !.env = [@ EXCEPT ![n] = v], !.envChanges = @ + 1]
    /\ UNCHANGED <<ms, cl, returned, impl, sections, ctx, ci, pc, req, calls, res,
                   hv, upstream, sink>>

\* The handler module is evaluated, on the first request to the route.
LoadHandlerModule ==
    /\ proc.pc = "running"
    /\ proc.handlerModule = <<>>
    /\ proc' = [Built(proc, "openai") EXCEPT !.handlerModule = <<HandlerModule(proc)>>]
    /\ UNCHANGED <<ms, cl, returned, impl, sections, ctx, ci, pc, req, calls, res,
                   hv, upstream, sink>>

\* The handler serves one request; a request that passes the checks creates
\* its Supabase client.
ServeRequest(valid) ==
    /\ proc.pc = "running"
    /\ proc.handlerModule # <<>>
    /\ proc.requests < MaxRequests
    /\ proc' = IF ReachesCreateClient(proc.handlerModule[1], valid)
               THEN [Built(proc, "supabase") EXCEPT !.requests = @ + 1]
               ELSE [proc EXCEPT !.requests = @ + 1]
    /\ UNCHANGED <<ms, cl, returned, impl, sections, ctx, ci, pc, req, calls, res,
                   hv, upstream, sink>>

InitProcess ==
    /\ proc \in {ProcStart(e) : e \in [EnvNames -> EnvValues]}
    /\ ms = MsIdle
    /\ cl = ClIdle
    /\ ci = CiIdle
    /\ CtxIdle
    /\ HandlerIdle

NextProcess ==
    \/ \E g \in Getters : Get(g)
    \/ \E n \in EnvNames, v \in EnvValues : SetEnv(n, v)
    \/ LoadHandlerModule
    \/ \E valid \in BOOLEAN : ServeRequest(valid)

SpecProcess == InitProcess /\ [][NextProcess]_vars

\* The processes a library function may be called in: freshly started, each
\* variable unset, empty or set.
EntryEnvValues == {<<>>, <<"">>, <<"a">>}

EntryProcesses == {ProcStart(e) : e \in [EnvNames -> EntryEnvValues]}

(***************************************************************************)
(* Specification of context assembly: the loop of either copy, one         *)
(* iteration per step, over every candidate list within the bounds.        *)
(***************************************************************************)
InitContext ==
    /\ impl \in {"lib", "inline"}
    /\ sections \in SeqsUpTo(SectionSet, MaxSections)
    /\ ctx = CtxStart
    /\ ci = CiIdle
    /\ HandlerIdle
    /\ LibIdle

\* one iteration of buildContextFromSections' loop
BuildContextStep ==
    /\ impl = "lib"
    /\ ~ctx.done
    /\ ctx' = ContextIteration("lib", sections, ctx)
    /\ UNCHANGED <<proc, ms, cl, returned, impl, sections, ci, pc, req, calls, res, hv, upstream, sink>>

\* one iteration of the handler's inline loop
InlineContextStep ==
    /\ impl = "inline"
    /\ ~ctx.done
    /\ ctx' = ContextIteration("inline", sections, ctx)
    /\ UNCHANGED <<proc, ms, cl, returned, impl, sections, ci, pc, req, calls, res, hv, upstream, sink>>

NextContext == BuildContextStep \/ InlineContextStep

SpecContext == InitContext /\ [][NextContext]_vars

(***************************************************************************)
(* Specification of intent classification: classifyIntentKorean (lib) and  *)
(* the handler's inline block, over every classifier outcome within the    *)
(* bounds.                                                                 *)
(***************************************************************************)
RawAlphabet == {"{", "}", ",", "p", "c", "i:greeting", "i:"}

ClassifierOutcomes ==
    {CallThrew, CallReturned(<<>>)}
    \cup {CallReturned(<<r>>) : r \in SeqsUpTo(RawAlphabet, MaxRawLen)}

\* classifyIntentKorean is called: nothing of its body has run yet.
ClassifierEntry == [ClassifierStart("lib") EXCEPT !.pc = "entry"]

\* The library classifier is called in some process; the handler's inline
\* block is reached after the handler's own environment check.
InitIntent ==
    /\ \/ ci = ClassifierEntry /\ proc \in EntryProcesses
       \/ ci = ClassifierStart("inline") /\ proc = ProcIdle
    /\ ms = MsIdle
    /\ cl = ClIdle
    /\ CtxIdle
    /\ HandlerIdle

\* const openai = getOpenAIClient(); const { models } = getConfig(): outside
\* both try blocks, so a missing environment variable rejects the call.
ClassifyIntentEnter ==
    /\ ci.pc = "entry"
    /\ LET client == GetOpenAIClient(proc)
           config == IF client.threw THEN client ELSE GetConfig(client.p)
       IN /\ proc' = config.p
          /\ ci' = [ci EXCEPT !.pc = IF config.threw THEN "threw" ELSE "start"]
    /\ UNCHANGED <<ms, cl, returned, impl, sections, ctx, pc, req, calls, res, hv, upstream, sink>>

\* the handler's try { ...create...; tryParseIntentJson } catch
InlineClassifyStep ==
    /\ ci.pc = "start"
    /\ ci.impl = "inline"
    /\ \E o \in ClassifierOutcomes : ci' = ClassifyInline(ci, o)
    /\ UNCHANGED <<proc, ms, cl, returned, impl, sections, ctx, pc, req, calls, res, hv, upstream, sink>>

\* classifyIntentKorean: the first openai.responses.create completes
ClassifyIntentFirst ==
    /\ ci.pc = "start"
    /\ ci.impl = "lib"
    /\ \E o \in ClassifierOutcomes : ci' = ClassifyFirst(ci, o)
    /\ UNCHANGED <<proc, ms, cl, returned, impl, sections, ctx, pc, req, calls, res, hv, upstream, sink>>

\* classifyIntentKorean: the fallback openai.responses.create completes
ClassifyIntentFallback ==
    /\ ci.pc = "fallback"
    /\ ci.impl = "lib"
    /\ \E o \in ClassifierOutcomes : ci' = ClassifyFallback(ci, o)
    /\ UNCHANGED <<proc, ms, cl, returned, impl, sections, ctx, pc, req, calls, res, hv, upstream, sink>>

NextIntent ==
    \/ ClassifyIntentEnter
    \/ InlineClassifyStep
    \/ ClassifyIntentFirst
    \/ ClassifyIntentFallback

SpecIntent == InitIntent /\ [][NextIntent]_vars

(***************************************************************************)
(* Retrieval in the library: matchSectionsForQuery and                     *)
(* hydrateSectionsWithPagePath (lib/rag.ts).  ms holds the position (pc),  *)
(* what the rpc returned (data, error), the sections after the ?? default, *)
(* what the page lookup returned (lookup: <<>> while none has returned)    *)
(* and the value returned to the caller (out).                             *)
(***************************************************************************)
MatchSection(id, page_id, path) ==
    [isNull |-> FALSE, id |-> id, page_id |-> page_id, path |-> path]

NullMatchSection == [isNull |-> TRUE, id |-> 0, page_id |-> <<>>, path |-> <<>>]

MatchSectionSet ==
    {NullMatchSection}
    \cup {MatchSection(i, p, q) :
            i \in {7, 8}, p \in {<<>>, <<1>>, <<2>>}, q \in {<<>>, <<"/own">>, <<"">>}}

\* What supabase.rpc('match_page_sections') resolves to: { data, error }.
LibMatchOutcomes ==
    {[error |-> TRUE, data |-> Absent]}
    \cup {[error |-> FALSE, data |-> c] :
            c \in {Absent, NotArray}
                  \cup {ArrayOf(x) : x \in SeqsUpTo(MatchSectionSet, MaxPageSections)}}

PageRow(id, path) == [id |-> id, path |-> path]

\* What the nods_page query resolves to: { data, error }, data a list of rows.
HydrateOutcomes ==
    {[error |-> TRUE, data |-> Absent], [error |-> FALSE, data |-> Absent]}
    \cup {[error |-> FALSE, data |-> ArrayOf(x)] :
            x \in SeqsUpTo({PageRow(1, "/one"), PageRow(2, "/two"), PageRow(1, "/uno")}, 2)}

\* pc: "entry" (called), "rpc" and "hydrate" (awaiting the query), "returned",
\* "threw".
MsStart ==
    [pc |-> "entry", error |-> FALSE, data |-> Absent, sections |-> <<>>,
     lookup |-> <<>>, out |-> <<>>]

\* (data ?? []) as PageSection[]
DefaultToEmpty(data) == IF data.kind = "absent" THEN ArrayOf(<<>>) ELSE data

\* Array.from(new Set(sections.map((s) => s.page_id).filter(typeof number)))
PageIds(secs) == {secs[k].page_id[1] : k \in {j \in 1..Len(secs) : secs[j].page_id # <<>>}}

\* pageIdToPath.get(id) after the rows were set in order: the last row wins
PathOfPage(rows, id) ==
    LET hits == {k \in 1..Len(rows) : rows[k].id = id}
    IN IF hits = {} THEN <<>>
       ELSE <<rows[CHOOSE k \in hits : \A j \in hits : j <= k].path>>

\* a ?? b, where b may itself be missing
OrElse(a, b) == IF a = <<>> THEN b ELSE a

\* A hydration that prefers the page's path to the section's own
HydratedSectionFromPage(rows, s) ==
    [s EXCEPT !.path =
        OrElse(IF s.page_id # <<>> THEN PathOfPage(rows, s.page_id[1]) ELSE <<>>,
               s.path)]

\* path: s.path ?? (s.page_id != null ? pageIdToPath.get(s.page_id) : undefined) ?? s.path
HydratedSection(rows, s) ==
    [s EXCEPT !.path =
        OrElse(OrElse(s.path,
                      IF s.page_id # <<>> THEN PathOfPage(rows, s.page_id[1]) ELSE <<>>),
               s.path)]

MapSectionsNewestFirst(rows, secs) ==
    [k \in 1..Len(secs) |-> HydratedSection(rows, secs[Len(secs) + 1 - k])]

\* sections.map((s) => ({ ...s, path: ... }))
MapSections(rows, secs) == [k \in 1..Len(secs) |-> HydratedSection(rows, secs[k])]

\* const supabase = getServerSupabaseClient(): a missing environment
\* variable rejects the call before the rpc is issued; else the rpc is issued.
MatchEnter ==
    /\ ms.pc = "entry"
    /\ LET client == GetServerSupabaseClient(proc)
       IN /\ proc' = client.p
          /\ ms' = [ms EXCEPT !.pc = IF client.threw THEN "threw" ELSE "rpc"]
    /\ UNCHANGED <<cl, returned, impl, sections, ctx, ci, pc, req, calls, res, hv,
                   upstream, sink>>

\* The rpc resolves: error check, the ?? default, then the page ids.  A value
\* that is not an array, or a null entry, makes sections.map(...) throw.
MatchRpcDone ==
    /\ ms.pc = "rpc"
    /\ \E o \in LibMatchOutcomes :
         LET secs == DefaultToEmpty(o.data)
             got == [ms EXCEPT !.error = o.error, !.data = o.data]
         IN ms' =
              IF o.error THEN [got EXCEPT !.pc = "threw"]
              ELSE IF secs.kind # "array" THEN [got EXCEPT !.pc = "threw"]
              ELSE IF \E k \in 1..Len(secs.items) : secs.items[k].isNull
                   THEN [got EXCEPT !.pc = "threw"]
              ELSE IF PageIds(secs.items) = {}
                   THEN [got EXCEPT !.pc = "returned", !.sections = secs.items,
                                    !.out = secs.items]
              ELSE [got EXCEPT !.pc = "hydrate", !.sections = secs.items]
    /\ UNCHANGED <<proc, cl, returned, impl, sections, ctx, ci, pc, req, calls, res, hv,
                   upstream, sink>>

\* The nods_page query resolves: on error or no data the sections go back
\* unchanged, else each section gets its page's path unless it has its own.
HydrateDone ==
    /\ ms.pc = "hydrate"
    /\ \E o \in HydrateOutcomes :
         ms' = IF o.error \/ o.data.kind # "array"
               THEN [ms EXCEPT !.pc = "returned", !.lookup = <<o>>,
                               !.out = ms.sections]
               ELSE [ms EXCEPT !.pc = "returned", !.lookup = <<o>>,
                               !.out = MapSections(o.data.items, ms.sections)]
    /\ UNCHANGED <<proc, cl, returned, impl, sections, ctx, ci, pc, req, calls, res, hv,
                   upstream, sink>>

InitMatch ==
    /\ ms = MsStart
    /\ cl = ClIdle
    /\ proc \in EntryProcesses
    /\ ci = CiIdle
    /\ CtxIdle
    /\ HandlerIdle

NextMatch == MatchEnter \/ MatchRpcDone \/ HydrateDone

SpecMatch == InitMatch /\ [][NextMatch]_vars

\* Retrieval and context assembly of the library, each over all its inputs.
InitRetrieval == InitMatch \/ InitContext

NextRetrieval == NextMatch \/ NextContext

SpecRetrieval == InitRetrieval /\ [][NextRetrieval]_vars

(***************************************************************************)
(* The citation protocol as text.  A text is the list of its pieces.  The  *)
(* pieces of a user string are characters: "a", "QUOTE" ("), "BACKSLASH"   *)
(* (\), "NL" (line feed), "LS" (U+2028), and the two halves " --" and ">"  *)
(* of the comment end.  The comment starts are "<!-- " followed by         *)
(* "CITATIONS: " or "END_CITATIONS: ".  The punctuation JSON.stringify     *)
(* puts between values is one piece per run, written with its keys.        *)
(***************************************************************************)
OPEN_CITATIONS == <<"<!-- ", "CITATIONS: ">>

OPEN_END_CITATIONS == <<"<!-- ", "END_CITATIONS: ">>

CLOSE_COMMENT == <<" --", ">">>

LineTerminators == {"NL", "LS"}

UserChars == {"a", "QUOTE", "BACKSLASH", "NL", "LS", " --", ">"}

\* Citation (lib/http.ts) / UsedSection: three numbers are kept as one
\* (similarity, content_length and token_count are written like id).
Citation(id, path, heading, similarity) ==
    [id |-> id, path |-> path, heading |-> heading, similarity |-> similarity]

CitationNumbers == 0..9

CitationSet ==
    {Citation(1, <<"a">>, <<"a">>, 9),
     Citation(2, <<"a">>, <<"QUOTE", "a", "BACKSLASH">>, 0),
     Citation(3, <<"a">>, <<"a", " --", ">">>, 5)}

\* JSON.stringify of one character of a string
EscapeChar(c) ==
    CASE c = "QUOTE" -> <<"BACKSLASH", "QUOTE">>
      [] c = "BACKSLASH" -> <<"BACKSLASH", "BACKSLASH">>
      [] c = "NL" -> <<"BACKSLASH", "n">>
      [] OTHER -> <<c>>

RECURSIVE EscapeChars(_)
EscapeChars(s) == IF s = <<>> THEN <<>> ELSE EscapeChar(Head(s)) \o EscapeChars(Tail(s))

\* JSON.stringify of a string
StringifyString(s) == <<"QUOTE">> \o EscapeChars(s) \o <<"QUOTE">>

\* JSON.stringify of a number
StringifyNumber(n) == <<ToString(n)>>

\* JSON.stringify of a source object
StringifyCitation(c) ==
    <<"{id:">> \o StringifyNumber(c.id)
    \o <<",path:">> \o StringifyString(c.path)
    \o <<",heading:">> \o StringifyString(c.heading)
    \o <<",similarity:">> \o StringifyNumber(c.similarity)
    \o <<"}">>

RECURSIVE StringifyCitations(_)
StringifyCitations(cs) ==
    IF cs = <<>> THEN <<>>
    ELSE StringifyCitation(Head(cs))
         \o (IF Len(cs) > 1 THEN <<",">> ELSE <<>>)
         \o StringifyCitations(Tail(cs))

TIMESTAMP == <<"T">>

\* JSON.stringify(citationData)
StringifyCitationData(sources, query) ==
    <<"{type:citations,sources:[">> \o StringifyCitations(sources)
    \o <<"],query:">> \o StringifyString(query)
    \o <<",timestamp:">> \o StringifyString(TIMESTAMP)
    \o <<"}">>

\* `<!-- CITATIONS: ${JSON.stringify(citationData)} -->\n`
PreambleText(sources, query) ==
    OPEN_CITATIONS \o StringifyCitationData(sources, query) \o CLOSE_COMMENT \o <<"NL">>

\* `\n\n<!-- END_CITATIONS: ${sources.length} sources used -->`
TrailerText(n) ==
    <<"NL", "NL">> \o OPEN_END_CITATIONS \o <<ToString(n), " sources used">>
    \o CLOSE_COMMENT

\* The body of a complete response, as the client receives it.
ResponseText(sources, query, prose) ==
    PreambleText(sources, query) \o prose \o TrailerText(Len(sources))

(***************************************************************************)
(* JSON.parse on the texts above and on their fragments.  A parse step     *)
(* gives [ok, value, next]: next is the position after what was read.      *)
(***************************************************************************)
ParseFail == [ok |-> FALSE, value |-> <<>>, next |-> 0]

Parsed(value, next) == [ok |-> TRUE, value |-> value, next |-> next]

At(t, i) == IF i \in 1..Len(t) THEN t[i] ELSE "EOF"

\* The characters of a string up to its closing quote, escapes decoded.  A
\* raw line feed, an unknown escape and the end of the text are errors.
RECURSIVE ParseChars(_, _, _)
ParseChars(t, i, acc) ==
    LET c == At(t, i) IN
    CASE c = "EOF" -> ParseFail
      [] c = "QUOTE" -> Parsed(acc, i + 1)
      [] c = "NL" -> ParseFail
      [] c = "BACKSLASH" ->
           LET e == At(t, i + 1) IN
           CASE e \in {"QUOTE", "BACKSLASH"} -> ParseChars(t, i + 2, Append(acc, e))
             [] e = "n" -> ParseChars(t, i + 2, Append(acc, "NL"))
             [] OTHER -> ParseFail
      [] OTHER -> ParseChars(t, i + 1, Append(acc, c))

ParseString(t, i) == IF At(t, i) = "QUOTE" THEN ParseChars(t, i + 1, <<>>) ELSE ParseFail

ParseNumber(t, i) ==
    LET ns == {n \in CitationNumbers : ToString(n) = At(t, i)} IN
    IF ns = {} THEN ParseFail ELSE Parsed(CHOOSE n \in ns : TRUE, i + 1)

\* F applied to the value of e, which is computed once.
WithValue(e, F(_)) == CHOOSE v \in {F(x) : x \in {e}} : TRUE

ParseCitation(t, i) ==
    IF At(t, i) # "{id:" THEN ParseFail ELSE
    WithValue(ParseNumber(t, i + 1), LAMBDA id :
    IF ~id.ok \/ At(t, id.next) # ",path:" THEN ParseFail ELSE
    WithValue(ParseString(t, id.next + 1), LAMBDA path :
    IF ~path.ok \/ At(t, path.next) # ",heading:" THEN ParseFail ELSE
    WithValue(ParseString(t, path.next + 1), LAMBDA heading :
    IF ~heading.ok \/ At(t, heading.next) # ",similarity:" THEN ParseFail ELSE
    WithValue(ParseNumber(t, heading.next + 1), LAMBDA similarity :
    IF ~similarity.ok \/ At(t, similarity.next) # "}" THEN ParseFail ELSE
    Parsed(Citation(id.value, path.value, heading.value, similarity.value),
           similarity.next + 1)))))

\* The elements of the sources array, up to "]" (which starts the next run).
RECURSIVE ParseCitationList(_, _, _)
ParseCitationList(t, i, acc) ==
    WithValue(ParseCitation(t, i), LAMBDA c :
    IF ~c.ok THEN ParseFail
    ELSE IF At(t, c.next) = ","
         THEN ParseCitationList(t, c.next + 1, Append(acc, c.value))
         ELSE Parsed(Append(acc, c.value), c.next))

\* JSON.parse(text): the citationData object, or a SyntaxError.
JsonParse(t) ==
    IF At(t, 1) # "{type:citations,sources:[" THEN ParseFail ELSE
    WithValue(IF At(t, 2) = "],query:" THEN Parsed(<<>>, 2)
              ELSE ParseCitationList(t, 2, <<>>), LAMBDA sources :
    IF ~sources.ok \/ At(t, sources.next) # "],query:" THEN ParseFail ELSE
    WithValue(ParseString(t, sources.next + 1), LAMBDA query :
    IF ~query.ok \/ At(t, query.next) # ",timestamp:" THEN ParseFail ELSE
    WithValue(ParseString(t, query.next + 1), LAMBDA timestamp :
    IF ~timestamp.ok \/ At(t, timestamp.next) # "}" THEN ParseFail ELSE
    IF timestamp.next # Len(t) THEN ParseFail ELSE
    Parsed([type |-> "citations", sources |-> sources.value, query |-> query.value,
            timestamp |-> timestamp.value], Len(t) + 1))))

(***************************************************************************)
(* The client's regular expressions.                                       *)
(***************************************************************************)
StartsAt(t, i, word) ==
    /\ i + Len(word) - 1 <= Len(t)
    /\ \A k \in 1..Len(word) : t[i + k - 1] = word[k]

\* open(.*?)close matched at position i: the positions where the comment end
\* may start.  dotAll: [\s\S] instead of . (which no line terminator matches).
CloseCandidates(t, i, open, dotAll) ==
    IF ~StartsAt(t, i, open) THEN {}
    ELSE {j \in (i + Len(open))..Len(t) :
            /\ StartsAt(t, j, CLOSE_COMMENT)
            /\ dotAll \/ \A k \in (i + Len(open))..(j - 1) : t[k] \notin LineTerminators}

\* lazy quantifier: the first comment end
CloseAt(t, i, open, dotAll) ==
    LET js == CloseCandidates(t, i, open, dotAll) IN
    IF js = {} THEN 0 ELSE CHOOSE j \in js : \A k \in js : j <= k

SubText(t, a, b) == [k \in 1..(b - a + 1) |-> t[a + k - 1]]

\* response.match(/<!-- CITATIONS: (.*?) -->/): <<group 1>>, or <<>> for null
MatchCitations(t) ==
    LET starts == {i \in 1..Len(t) : CloseAt(t, i, OPEN_CITATIONS, FALSE) # 0} IN
    IF starts = {} THEN <<>>
    ELSE LET i == CHOOSE s \in starts : \A k \in starts : s <= k
         IN <<SubText(t, i + Len(OPEN_CITATIONS), CloseAt(t, i, OPEN_CITATIONS, FALSE) - 1)>>

\* text.replace(/open.*? -->/g, '') from position i on
RECURSIVE RemoveComments(_, _, _, _)
RemoveComments(t, i, open, dotAll) ==
    IF i > Len(t) THEN <<>>
    ELSE LET j == CloseAt(t, i, open, dotAll) IN
         IF j # 0 THEN RemoveComments(t, j + Len(CLOSE_COMMENT), open, dotAll)
         ELSE <<t[i]>> \o RemoveComments(t, i + 1, open, dotAll)

WhiteSpace == {"NL", "LS"}

RECURSIVE TrimStart(_)
TrimStart(t) == IF t # <<>> /\ Head(t) \in WhiteSpace THEN TrimStart(Tail(t)) ELSE t

RECURSIVE TrimEnd(_)
TrimEnd(t) ==
    IF t # <<>> /\ t[Len(t)] \in WhiteSpace THEN TrimEnd(SubSeq(t, 1, Len(t) - 1)) ELSE t

Trim(t) == WithValue(TrimStart(t), LAMBDA u : TrimEnd(u))

StripBothComments(t, dotAll) ==
    WithValue(RemoveComments(t, 1, OPEN_CITATIONS, dotAll), LAMBDA u :
    RemoveComments(u, 1, OPEN_END_CITATIONS, dotAll))

\* parseCitations(response)
ParseCitations(response) ==
    LET raw == [content |-> response, citations |-> <<>>] IN
    WithValue(MatchCitations(response), LAMBDA citationMatch :
    IF citationMatch = <<>> THEN raw
    ELSE WithValue(JsonParse(citationMatch[1]), LAMBDA citationData :
         IF ~citationData.ok THEN raw
         ELSE [content |-> Trim(StripBothComments(response, FALSE)),
               citations |-> citationData.value.sources]))

\* sanitizeStreaming(text)
SanitizeStreaming(text) == TrimStart(StripBothComments(text, TRUE))

(***************************************************************************)
(* The round trip of the preamble: writeCitations on the server, then      *)
(* parseCitations on the client.  cl holds the position (pc), the encoded  *)
(* list and query, the text on the wire and the decoded result.            *)
(***************************************************************************)
MaxQueryLen == 2

MaxCitations == 2

CodecStart(sources, query) ==
    [pc |-> "encode", sources |-> sources, query |-> query, wire |-> <<>>,
     decoded |-> [content |-> <<>>, citations |-> <<>>]]

InitCodec ==
    /\ cl \in {CodecStart(s, q) : s \in SeqsUpTo(CitationSet, MaxCitations),
                                  q \in SeqsUpTo(UserChars, MaxQueryLen)}
    /\ ms = MsIdle
    /\ proc = ProcIdle
    /\ ci = CiIdle
    /\ CtxIdle
    /\ HandlerIdle

\* writeCitations(res, sources, query)
EncodePreamble ==
    /\ cl.pc = "encode"
    /\ cl' = [cl EXCEPT !.pc = "decode", !.wire = PreambleText(cl.sources, cl.query)]
    /\ UNCHANGED <<proc, ms, returned, impl, sections, ctx, ci, pc, req, calls, res, hv,
                   upstream, sink>>

\* parseCitations(response)
DecodePreamble ==
    /\ cl.pc = "decode"
    /\ cl' = [cl EXCEPT !.pc = "decoded", !.decoded = ParseCitations(cl.wire)]
    /\ UNCHANGED <<proc, ms, returned, impl, sections, ctx, ci, pc, req, calls, res, hv,
                   upstream, sink>>

NextCodec == EncodePreamble \/ DecodePreamble

SpecCodec == InitCodec /\ [][NextCodec]_vars

(***************************************************************************)
(* The client (SearchDialog) receiving one response.  cl holds the full    *)
(* body the server sends, where it is split, how much of it useCompletion  *)
(* has put in `completion`, whether the streaming effect is due for that   *)
(* value, whether onFinish ran, and the last assistant message.            *)
(***************************************************************************)
MaxProseLen == 2

ProseChars == {"a", "NL"}

ClientSources == {<<>>, <<Citation(1, <<"a">>, <<"a">>, 9)>>}

ClientQueries == {<<"a">>, <<"a", "QUOTE">>, <<" --", ">">>}

\* loadingMessage of handleSubmit
LoadingMessage == [content |-> <<>>, citations |-> <<>>, isLoading |-> TRUE]

ClientStart(body, split) ==
    [pc |-> "receiving", body |-> body, split |-> split, completion |-> 0,
     effectDue |-> FALSE, finished |-> FALSE, message |-> LoadingMessage]

\* The streaming effect on the last assistant message, for a completion text
StreamingEffectOn(message, completion) ==
    IF completion = <<>> THEN message
    ELSE WithValue(SanitizeStreaming(completion), LAMBDA interim :
         IF interim = <<>> THEN message
         ELSE [message EXCEPT !.content = interim, !.isLoading = FALSE])

\* onFinish(prompt, finalText) on the last assistant message
OnFinishOn(message, finalText) ==
    WithValue(ParseCitations(finalText), LAMBDA p :
    [message EXCEPT !.content = p.content, !.citations = p.citations,
                    !.isLoading = FALSE])

InitClient ==
    /\ \E s \in ClientSources, q \in ClientQueries,
          prose \in SeqsUpTo(ProseChars, MaxProseLen) :
         LET body == ResponseText(s, q, prose) IN
         \E split \in 0..Len(body) : cl = ClientStart(body, split)
    /\ ms = MsIdle
    /\ proc = ProcIdle
    /\ ci = CiIdle
    /\ CtxIdle
    /\ HandlerIdle

\* useCompletion reads a piece of the body and sets `completion`
ReceiveChunk ==
    /\ cl.pc = "receiving"
    /\ cl.completion < Len(cl.body)
    /\ cl' = [cl EXCEPT
                !.completion = IF cl.completion < cl.split THEN cl.split
                               ELSE Len(cl.body),
                !.effectDue = TRUE]
    /\ UNCHANGED <<proc, ms, returned, impl, sections, ctx, ci, pc, req, calls, res, hv,
                   upstream, sink>>

\* React runs the effect for the current value of `completion`
StreamingEffect ==
    /\ cl.pc = "receiving"
    /\ cl.effectDue
    /\ cl' = [cl EXCEPT
                !.effectDue = FALSE,
                !.message = StreamingEffectOn(cl.message,
                                              SubSeq(cl.body, 1, cl.completion))]
    /\ UNCHANGED <<proc, ms, returned, impl, sections, ctx, ci, pc, req, calls, res, hv,
                   upstream, sink>>

\* the body is complete: useCompletion calls onFinish(prompt, finalText)
OnFinish ==
    /\ cl.pc = "receiving"
    /\ cl.completion = Len(cl.body)
    /\ ~cl.finished
    /\ cl' = [cl EXCEPT !.finished = TRUE,
                        !.message = OnFinishOn(cl.message, cl.body)]
    /\ UNCHANGED <<proc, ms, returned, impl, sections, ctx, ci, pc, req, calls, res, hv,
                   upstream, sink>>

NextClient == ReceiveChunk \/ StreamingEffect \/ OnFinish

SpecClient == InitClient /\ [][NextClient]_vars

(***************************************************************************)
(* Conversation history.  The client side is handleSubmit of SearchDialog; *)
(* the server side is the handler, which reads prompt and stream from the  *)
(* body and builds its prompt from the context and the question.  A        *)
(* message is [id, isUser, content, isLoading]; its content is 0 for the   *)
(* empty string and its own id for a text, so that a turn can be told from *)
(* every other turn.  cl holds the messages, the number of submits, the    *)
(* `messages` the last submit read, the request in flight (<<>> or         *)
(* <<[history, historyLimit]>>) and the turns of the history that are in   *)
(* the prompt the handler built.                                           *)
(***************************************************************************)
MaxSubmits == 6

MaxTurns == 12

Message(id, isUser, content, isLoading) ==
    [id |-> id, isUser |-> isUser, content |-> content, isLoading |-> isLoading]

\* The result of Number(...): a number, or NaN.
Num(v) == [finite |-> TRUE, value |-> v]

NaN == [finite |-> FALSE, value |-> 0]

\* process.env.NEXT_PUBLIC_CHAT_HISTORY_LIMIT, already through Number():
\* unset, "0", "2", "12", "abc"
EnvHistoryLimits == {<<>>, <<Num(0)>>, <<Num(2)>>, <<Num(12)>>, <<NaN>>}

\* historyLimitDefault
HistoryLimitDefault(e) ==
    LET env == IF e = <<>> THEN Num(3) ELSE e[1] IN
    IF env.finite /\ env.value > 0 THEN env.value ELSE 3

\* { role: m.isUser ? 'user' : 'assistant', content: m.content }
Turn(m) == [role |-> IF m.isUser THEN "user" ELSE "assistant", content |-> m.content]

\* messages.filter((m) => m.content && !m.isLoading).map(...)
RECURSIVE EligibleTurns(_)
EligibleTurns(msgs) ==
    IF msgs = <<>> THEN <<>>
    ELSE (IF Head(msgs).content # 0 /\ ~Head(msgs).isLoading
          THEN <<Turn(Head(msgs))>> ELSE <<>>)
         \o EligibleTurns(Tail(msgs))

\* h.slice(-n), n > 0
SliceLast(h, n) == SubSeq(h, (IF n < Len(h) THEN Len(h) - n ELSE 0) + 1, Len(h))

\* const { prompt: query } = requestData; const prompt = codeBlock`...
\* ${safeContextText} ... ${safeSanitizedQuery} ...`: the handler reads
\* neither history nor historyLimit, and its prompt holds the context and
\* the question; no turn of the history is in it.
PromptHistory(requestData) == <<>>

\* The greeting the dialog starts with
WelcomeMessage == Message(1, FALSE, 1, FALSE)

\* pc "chat": the dialog; pc "api": another caller of the API, on its own.
HistoryStart(who, e) ==
    [pc |-> who, env |-> e, messages |-> <<WelcomeMessage>>, submits |-> 0,
     read |-> <<>>, fromClient |-> FALSE, request |-> <<>>, prompted |-> FALSE,
     promptHistory |-> <<>>]

InitHistory ==
    /\ cl \in {HistoryStart("chat", e) : e \in EnvHistoryLimits}
              \cup {HistoryStart("api", <<>>)}
    /\ ms = MsIdle
    /\ proc = ProcIdle
    /\ ci = CiIdle
    /\ CtxIdle
    /\ HandlerIdle

\* handleSubmit with a non-blank query: the two new messages, the history of
\* the messages as they were, and the request
HandleSubmit ==
    /\ cl.pc = "chat"
    /\ cl.request = <<>>
    /\ cl.submits < MaxSubmits
    /\ LET n == Len(cl.messages)
           userMessage == Message(n + 1, TRUE, n + 1, FALSE)
           loadingMessage == Message(n + 2, FALSE, 0, TRUE)
           limit == HistoryLimitDefault(cl.env)
           history == SliceLast(EligibleTurns(cl.messages), limit)
       IN cl' = [cl EXCEPT
                   !.messages = cl.messages \o <<userMessage, loadingMessage>>,
                   !.submits = @ + 1,
                   !.read = cl.messages,
                   !.fromClient = TRUE,
                   !.request = <<[history |-> history, historyLimit |-> <<limit>>]>>,
                   !.prompted = FALSE,
                   !.promptHistory = <<>>]
    /\ UNCHANGED <<proc, ms, returned, impl, sections, ctx, ci, pc, req, calls, res, hv,
                   upstream, sink>>

\* const requestData = req.body: another caller of the API sends its own
\* history, with or without a limit
DirectRequest ==
    /\ cl.pc = "api"
    /\ cl.request = <<>>
    /\ \E n \in 0..MaxTurns, limit \in {<<>>, <<2>>, <<12>>} :
         cl' = [cl EXCEPT
                  !.read = <<>>,
                  !.fromClient = FALSE,
                  !.request =
                      <<[history |->
                           [k \in 1..n |->
                              [role |-> IF k % 2 = 1 THEN "user" ELSE "assistant",
                               content |-> k]],
                         historyLimit |-> limit]>>,
                  !.prompted = FALSE,
                  !.promptHistory = <<>>]
    /\ UNCHANGED <<proc, ms, returned, impl, sections, ctx, ci, pc, req, calls, res, hv,
                   upstream, sink>>

\* The handler builds the prompt of the request and hands it to the model.
BuildPrompt ==
    /\ cl.pc \in {"chat", "api"}
    /\ cl.request # <<>>
    /\ ~cl.prompted
    /\ cl' = [cl EXCEPT !.prompted = TRUE,
                        !.promptHistory = PromptHistory(cl.request[1])]
    /\ UNCHANGED <<proc, ms, returned, impl, sections, ctx, ci, pc, req, calls, res, hv,
                   upstream, sink>>

\* The response ends.  For the dialog's own request onFinish fills the
\* loading message, with a text or with the empty string; a failed request
\* leaves the loading message as it is.
ResponseEnds ==
    /\ cl.pc \in {"chat", "api"}
    /\ cl.request # <<>>
    /\ cl.prompted
    /\ \E outcome \in {"text", "empty", "failed"} :
         LET n == Len(cl.messages) IN
         cl' = [cl EXCEPT
                  !.request = <<>>,
                  !.messages =
                      IF cl.fromClient /\ outcome # "failed"
                      THEN [cl.messages EXCEPT
                              ![n] = Message(n, FALSE,
                                             IF outcome = "text" THEN n ELSE 0, FALSE)]
                      ELSE cl.messages]
    /\ UNCHANGED <<proc, ms, returned, impl, sections, ctx, ci, pc, req, calls, res, hv,
                   upstream, sink>>

NextHistory == HandleSubmit \/ DirectRequest \/ BuildPrompt \/ ResponseEnds

SpecHistory == InitHistory /\ [][NextHistory]_vars

(***************************************************************************)
(* The dialog's persistence (components/SearchDialog.tsx): the effect that *)
(* restores the messages on mount and the effect that saves them on every  *)
(* change.  The storage slot holds nothing (<<>>) or a text; a text is     *)
(* the empty string, a text JSON.parse rejects, or a JSON document.  A     *)
(* JSON value and a JavaScript value are records tagged by t; a timestamp  *)
(* is a Date (ms = <<n>>, or <<>> for Invalid Date), a string, a number,   *)
(* null or undefined.  cl holds the slot as it was found (loaded), the     *)
(* slot, the messages rendered, the state updates waiting for the next     *)
(* render, in the order of their setMessages calls, and what console.error *)
(* got.  strict: the page runs under reactStrictMode in development, where *)
(* React runs the effects of a mounting component, then runs them a second *)
(* time, before it renders the updates they queued; pass counts the runs.  *)
(***************************************************************************)
MaxStored == 3

JsonNull == [t |-> "null"]
JsonNumber(n) == [t |-> "number", v |-> n]
JsonArray(items) == [t |-> "array", items |-> items]
JsonObject(id, content, isUser, timestamp) ==
    [t |-> "object", id |-> id, content |-> content, isUser |-> isUser,
     timestamp |-> timestamp]
JsDate(millis) == [t |-> "Date", ms |-> millis]
IsoString(n) == [t |-> "string", v |-> n]
Undefined == [t |-> "undefined"]

EmptyText == [kind |-> "text", json |-> <<>>, empty |-> TRUE]
UnparsableText == [kind |-> "text", json |-> <<>>, empty |-> FALSE]
JsonText(v) == [kind |-> "text", json |-> <<v>>, empty |-> FALSE]

\* The greeting of useState: id '1', the welcome text, not the user's, now.
NOW == 9
DefaultGreeting == JsonObject(<<"1">>, <<"welcome">>, <<FALSE>>, JsDate(<<NOW>>))

\* What a saved list may hold: messages as the dialog saves them, and values
\* that are no messages.
StoredItems ==
    {JsonObject(<<"u">>, <<"question">>, <<TRUE>>, IsoString(3)),
     JsonObject(<<"a">>, <<"answer">>, <<FALSE>>, JsonNumber(4)),
     JsonNull, JsonNumber(1)}

StoredValues ==
    {<<>>, <<EmptyText>>, <<UnparsableText>>, <<JsonText(JsonNull)>>,
     <<JsonText(JsonObject(<<"u">>, <<"question">>, <<TRUE>>, IsoString(3)))>>}
    \cup {<<JsonText(JsonArray(s))>> : s \in SeqsUpTo(StoredItems, MaxStored)}

\* new Date(x)
NewDate(x) ==
    CASE x.t = "string" -> JsDate(<<x.v>>)
      [] x.t = "number" -> JsDate(<<x.v>>)
      [] x.t = "null" -> JsDate(<<0>>)
      [] x.t = "Date" -> x
      [] OTHER -> JsDate(<<>>)

\* A Date under JSON.stringify: its ISO string, or null for Invalid Date;
\* an undefined property is left out.
StringifyTimestamp(x) ==
    CASE x.t = "Date" -> IF x.ms = <<>> THEN JsonNull ELSE IsoString(x.ms[1])
      [] OTHER -> x

\* JSON.stringify(messages), as the document JSON.parse gives back
StringifyMessages(msgs) ==
    JsonText(JsonArray([k \in 1..Len(msgs) |->
        [msgs[k] EXCEPT !.timestamp = StringifyTimestamp(@)]]))

\* JSON.parse(raw) throws on a text that is no JSON document.
JsonParseThrows(raw) == raw.json = <<>>

\* parsed.map(...) reads parsed.map: a TypeError on null, "not a function" on
\* a value that is no array.
MapThrows(parsed) == parsed.t # "array"

\* (m) => ({ ...m, timestamp: new Date(m.timestamp) }): reading m.timestamp
\* throws on null; a number spreads to nothing and has no timestamp.
RestoreThrows(m) == m.t = "null"

RestoreMessage(m) ==
    IF m.t = "object" THEN [m EXCEPT !.timestamp = NewDate(@)]
    ELSE JsonObject(<<>>, <<>>, <<>>, NewDate(Undefined))

\* A restore effect that takes whatever list was saved
RestoresAnyList(restored) == Len(restored) >= 0

\* restored.length > 0
HasMessages(restored) == Len(restored) > 0

RestoreStart(stored, strict) ==
    [pc |-> "mounted", strict |-> strict, pass |-> 1, loaded |-> stored,
     storage |-> stored, messages |-> <<DefaultGreeting>>, pending |-> <<>>,
     errors |-> 0]

\* The restore effect, once, after the first render.
RestoreEffect ==
    /\ cl.pc = "mounted"
    /\ LET raw == cl.storage IN
       IF raw = <<>> \/ raw[1].empty
       THEN cl' = [cl EXCEPT !.pc = "restored"]
       ELSE IF JsonParseThrows(raw[1])
       THEN cl' = [cl EXCEPT !.pc = "restored", !.errors = @ + 1]
       ELSE LET parsed == raw[1].json[1] IN
            IF MapThrows(parsed) \/ \E k \in 1..Len(parsed.items) :
                                        RestoreThrows(parsed.items[k])
            THEN cl' = [cl EXCEPT !.pc = "restored", !.errors = @ + 1]
            ELSE LET restored == [k \in 1..Len(parsed.items) |->
                                     RestoreMessage(parsed.items[k])]
                 IN cl' = [cl EXCEPT !.pc = "restored",
                                     !.pending = IF HasMessages(restored)
                                                 THEN Append(@, restored) ELSE @]
    /\ UNCHANGED <<proc, ms, returned, impl, sections, ctx, ci, pc, req, calls, res,
                   hv, upstream, sink>>

\* The save effect, after a render whose messages changed; setItem may throw
\* (storage full or refused).
SaveEffect(ok) ==
    /\ cl.pc \in {"restored", "rendered"}
    /\ cl' = [cl EXCEPT
                !.pc = IF cl.pc = "restored" THEN "saved" ELSE "settled",
                !.storage = IF ok THEN <<StringifyMessages(cl.messages)>> ELSE @,
                !.errors = IF ok THEN @ ELSE @ + 1]
    /\ UNCHANGED <<proc, ms, returned, impl, sections, ctx, ci, pc, req, calls, res,
                   hv, upstream, sink>>

\* Under strict mode the effects of the mounted component are run again.
StrictRemount ==
    /\ cl.pc = "saved"
    /\ cl.strict
    /\ cl.pass = 1
    /\ cl' = [cl EXCEPT !.pc = "mounted", !.pass = 2]
    /\ UNCHANGED <<proc, ms, returned, impl, sections, ctx, ci, pc, req, calls, res,
                   hv, upstream, sink>>

\* The mount-time effects have all run.
EffectsRan(c) == c.pc = "saved" /\ (c.strict => c.pass = 2)

\* The render that follows the setMessages calls of the effects: the queued
\* updates are applied in order, the last one is the state.
RenderRestored ==
    /\ EffectsRan(cl)
    /\ cl.pending # <<>>
    /\ cl' = [cl EXCEPT !.pc = "rendered", !.messages = cl.pending[Len(cl.pending)],
                        !.pending = <<>>]
    /\ UNCHANGED <<proc, ms, returned, impl, sections, ctx, ci, pc, req, calls, res,
                   hv, upstream, sink>>

InitRestore ==
    /\ cl \in {RestoreStart(s, strict) : s \in StoredValues, strict \in BOOLEAN}
    /\ ms = MsIdle
    /\ proc = ProcIdle
    /\ ci = CiIdle
    /\ CtxIdle
    /\ HandlerIdle

NextRestore ==
    \/ RestoreEffect
    \/ \E ok \in BOOLEAN : SaveEffect(ok)
    \/ StrictRemount
    \/ RenderRestored

SpecRestore == InitRestore /\ [][NextRestore]_vars

(***************************************************************************)
(* writeWithBackpressure (lib/http.ts) and a caller that writes a list of  *)
(* chunks through it, one call after the other.  sink holds the caller's   *)
(* position (pc: "ready" to call, "awaiting" inside once(res, 'drain'),    *)
(* "finished", "threw"), the chunks and how many were written, and the     *)
(* socket: closed, bytes buffered, and whether a write has returned false  *)
(* since the last 'drain'.  res.write returns false when the buffer has    *)
(* reached the high-water mark or the socket is gone; 'drain' is emitted   *)
(* when the buffer of an open socket empties after that.                   *)
(***************************************************************************)
MaxWrites == 3
MaxBuffered == 2

ChunkSizes == {1, 2}

BackpressureStart(chunks) ==
    [pc |-> IF chunks = <<>> THEN "finished" ELSE "ready", chunks |-> chunks,
     written |-> 0, closed |-> FALSE, buffered |-> 0, needDrain |-> FALSE]

\* res.write(chunk): what it returns, and the socket afterwards
SocketWrite(s, size) ==
    IF s.closed THEN [ok |-> FALSE, s |-> [s EXCEPT !.needDrain = TRUE]]
    ELSE [ok |-> s.buffered + size < MaxBuffered,
          s |-> [s EXCEPT !.buffered = @ + size,
                          !.needDrain = @ \/ s.buffered + size >= MaxBuffered]]

\* The call returns to the caller, which goes on to its next chunk.
WriteReturns(s) ==
    [s EXCEPT !.written = @ + 1,
              !.pc = IF s.written + 1 = Len(s.chunks) THEN "finished" ELSE "ready"]

\* const ok = res.write(chunk); if (!ok) await once(res, 'drain')
WriteWithBackpressure(s, w) ==
    IF w.ok THEN WriteReturns(w.s) ELSE [w.s EXCEPT !.pc = "awaiting"]

\* The caller calls writeWithBackpressure with its next chunk.
BackpressureWrite ==
    /\ sink.pc = "ready"
    /\ sink' = WriteWithBackpressure(sink,
                   SocketWrite(sink, sink.chunks[sink.written + 1]))
    /\ UNCHANGED <<proc, ms, cl, returned, impl, sections, ctx, ci, pc, req, calls, res,
                   hv, upstream>>

\* The socket sends a buffered byte; when the buffer empties after a write
\* returned false, 'drain' is emitted and once(res, 'drain') resolves.
SocketFlush ==
    /\ sink.pc \in {"ready", "awaiting", "finished"}
    /\ ~sink.closed
    /\ sink.buffered > 0
    /\ LET left == sink.buffered - 1
           drain == left = 0 /\ sink.needDrain
           s == [sink EXCEPT !.buffered = left,
                             !.needDrain = IF drain THEN FALSE ELSE @]
       IN sink' = IF drain /\ sink.pc = "awaiting" THEN WriteReturns(s) ELSE s
    /\ UNCHANGED <<proc, ms, cl, returned, impl, sections, ctx, ci, pc, req, calls, res,
                   hv, upstream>>

\* The client disconnects: the socket is destroyed and what it buffered is
\* dropped; no 'drain' follows.  With an 'error' event on the response,
\* once(res, 'drain') rejects; 'close' alone does not settle it.
SocketClose(withError) ==
    /\ sink.pc \in {"ready", "awaiting", "finished"}
    /\ ~sink.closed
    /\ sink' = [sink EXCEPT !.closed = TRUE, !.buffered = 0,
                            !.pc = IF withError /\ @ = "awaiting" THEN "threw" ELSE @]
    /\ UNCHANGED <<proc, ms, cl, returned, impl, sections, ctx, ci, pc, req, calls, res,
                   hv, upstream>>

InitBackpressure ==
    /\ sink \in {BackpressureStart(c) : c \in SeqsUpTo(ChunkSizes, MaxWrites)}
    /\ pc = "idle"
    /\ returned = <<>>
    /\ req = [method |-> "POST", env |-> Env(TRUE, TRUE, TRUE), body |-> <<>>]
    /\ calls = <<>>
    /\ res = FreshResponse
    /\ hv = HandlerLocals
    /\ upstream = NoStream
    /\ ci = CiIdle
    /\ CtxIdle
    /\ LibIdle

NextBackpressure ==
    \/ BackpressureWrite
    \/ SocketFlush
    \/ \E withError \in BOOLEAN : SocketClose(withError)

\* The socket and the caller make progress whenever they can.
SpecBackpressure ==
    InitBackpressure /\ [][NextBackpressure]_vars /\ WF_vars(NextBackpressure)

(***************************************************************************)
(* The API handler (pages/api/vector-search.ts).  One action per stretch   *)
(* of code between two awaits; the action that ends at an external call    *)
(* appends the call to `calls`, and the action that starts after it draws  *)
(* what the call returned.                                                 *)
(***************************************************************************)
Init ==
    /\ pc = "start"
    /\ req \in Requests
    /\ calls = <<>>
    /\ res = FreshResponse
    /\ hv = HandlerLocals
    /\ upstream = NoStream
    /\ sink = SinkOpen
    /\ returned = <<>>
    /\ ci = CiIdle
    /\ CtxIdle
    /\ LibIdle

\* await of an external call has resolved or rejected
Completed(rs, call, ok) == Append(rs, [call |-> call, ok |-> ok])

IssueWithPrefetch(cs, call) ==
    IF call = "intent" THEN cs \o <<"intent", "embedding">> ELSE Append(cs, call)

\* await <call>: the call is issued and the handler suspends on it
Issue(cs, call) == Append(cs, call)

\* What the res.write calls of a step leave on the socket: a write returns
\* false when the socket is gone or still undrained, and otherwise as the
\* socket decides; the handler reads none of the reports.
ReportWrites ==
    IF Len(res'.wire) > Len(res.wire)
    THEN \E ok \in (IF sink.closed \/ sink.needDrain THEN {FALSE} ELSE BOOLEAN) :
            sink' = [sink EXCEPT !.needDrain = ~ok]
    ELSE UNCHANGED sink

\* throw err, caught by the handler's outer catch
Throw(err) ==
    /\ res' = OuterCatch(res, err)
    /\ pc' = "done"

\* The first environment variable found missing, "" if none.
MissingEnv(env) ==
    IF ~env.openAiKey THEN "OPENAI_KEY"
    ELSE IF ~env.supabaseUrl THEN "NEXT_PUBLIC_SUPABASE_URL"
    ELSE IF ~env.supabaseServiceKey THEN "SUPABASE_SERVICE_ROLE_KEY"
    ELSE ""

\* !query
NoQuery(body) == body.prompt = <<>> \/ body.prompt[1] = ""

\* From entry to the moderation call.
HandleRequest ==
    /\ pc = "start"
    /\ IF req.method # "POST"
       THEN /\ res' = ResJson(res, 405, JsonBody("Method Not Allowed", <<>>))
            /\ pc' = "done"
            /\ UNCHANGED <<calls, hv>>
       ELSE IF MissingEnv(req.env) # ""
       THEN /\ Throw(ApplicationError(MissingEnv(req.env)))
            /\ UNCHANGED <<calls, hv>>
       ELSE IF req.body = <<>>
       THEN /\ Throw(UserError("Missing request data", <<>>))
            /\ UNCHANGED <<calls, hv>>
       ELSE IF NoQuery(req.body[1])
       THEN /\ Throw(UserError("Missing query in request data", <<>>))
            /\ hv' = [hv EXCEPT !.wantsStream = ParseBooleanFlag(req.body[1].stream)]
            /\ UNCHANGED calls
       ELSE /\ hv' = [hv EXCEPT
                        !.wantsStream = ParseBooleanFlag(req.body[1].stream),
                        !.sanitizedQuery = TrimPrompt(req.body[1].prompt[1])]
            /\ calls' = Issue(calls, "moderation")
            /\ pc' = "moderation"
            /\ UNCHANGED res
    /\ UNCHANGED <<proc, req, upstream, sink, impl, sections, ctx, ci, ms, cl, returned>>

ModerationNeverFlags(results) == FALSE

\* if (results.flagged)
ModerationFlagged(results) == results.flagged

\* The moderation call returns: validation, the flagged gate, then the
\* intent call.
ModerationDone ==
    /\ pc = "moderation"
    /\ \E o \in ModerationOutcomes :
         /\ returned' = Completed(returned, "moderation", ~o.threw)
         /\ IF o.threw
            THEN Throw(OtherError) /\ UNCHANGED <<calls, hv>>
            ELSE IF InvalidContainer(o.results)
            THEN /\ Throw(ApplicationError("Invalid moderation response from OpenAI"))
                 /\ hv' = [hv EXCEPT !.moderationResults = Received(o.results)]
                 /\ UNCHANGED calls
            ELSE LET results == o.results.items[1] IN
                 /\ hv' = [hv EXCEPT !.results = <<results>>,
                                     !.moderationResults = Received(o.results)]
                 /\ IF ModerationFlagged(results)
                    THEN /\ Throw(UserError("Flagged content",
                                    <<[flagged |-> TRUE, categories |-> results.categories]>>))
                         /\ UNCHANGED calls
                    ELSE /\ calls' = Issue(calls, "intent")
                         /\ pc' = "intent"
                         /\ UNCHANGED res
    /\ UNCHANGED <<proc, req, upstream, sink, impl, sections, ctx, ci, ms, cl>>

IsGreetingOnly(intent) == intent = "greeting"

\* classifiedIntent === 'greeting' || classifiedIntent === 'smalltalk'
IsGreetingIntent(intent) == intent \in {"greeting", "smalltalk"}

\* A branch table that answers every label but legal_question early
IsNotLegalQuestion(intent) == intent # "legal_question"

\* classifiedIntent === 'non_legal' || classifiedIntent === 'other'
IsNonLegalIntent(intent) == intent \in {"non_legal", "other"}

\* The intent call returns: classification, then the branch on the intent.
IntentDone ==
    /\ pc = "intent"
    /\ \E o \in HandlerClassifierOutcomes :
         LET c == ClassifyInline(ClassifierStart("inline"), o) IN
         /\ returned' = Completed(returned, "intent", ~o.threw)
         /\ hv' = [hv EXCEPT !.classifiedIntent = c.intent,
                             !.classifiedConfidence = c.confidence]
         /\ IF c.pc = "threw"
            THEN Throw(OtherError) /\ UNCHANGED calls
            ELSE IF IsGreetingIntent(c.intent)
            THEN /\ res' = SendTextWithCitations(res, GREETING_ANSWER, <<>>,
                                                 hv.sanitizedQuery)
                 /\ pc' = "done"
                 /\ UNCHANGED calls
            ELSE IF IsNonLegalIntent(c.intent)
            THEN /\ calls' = Issue(calls, "nonlegal")
                 /\ pc' = "nonlegal"
                 /\ UNCHANGED res
            ELSE /\ calls' = Issue(calls, "embedding")
                 /\ pc' = "embedding"
                 /\ UNCHANGED res
    /\ ReportWrites
    /\ UNCHANGED <<proc, req, upstream, impl, sections, ctx, ci, ms, cl>>

NonLegalCatchRethrows(r, query) == OuterCatch(r, OtherError)

\* catch (e) { ...; sendTextWithCitations(res, fallback, [], sanitizedQuery) }
NonLegalCatch(r, query) == SendTextWithCitations(r, NON_LEGAL_FALLBACK, <<>>, query)

\* The secondary completion of the non_legal / other branch returns.
NonLegalDone ==
    /\ pc = "nonlegal"
    /\ \E o \in CompletionOutcomes :
         /\ returned' = Completed(returned, "nonlegal", ~o.threw)
         /\ res' = IF o.threw
                   THEN NonLegalCatch(res, hv.sanitizedQuery)
                   ELSE SendTextWithCitations(res,
                                              o.content \o <<"\n">> \o GUIDANCE_TAIL,
                                              <<>>, hv.sanitizedQuery)
    /\ pc' = "done"
    /\ ReportWrites
    /\ UNCHANGED <<proc, calls, hv, req, upstream, impl, sections, ctx, ci, ms, cl>>

InvalidEmbeddingDataUnlessEmpty(x) == x.kind # "array"

\* !embeddingResponse.data || !Array.isArray(embeddingResponse.data) ||
\* embeddingResponse.data.length === 0
InvalidEmbeddingData(x) == InvalidContainer(x)

\* The embedding call returns: validation, then the vector-store call.
EmbeddingDone ==
    /\ pc = "embedding"
    /\ \E o \in EmbeddingOutcomes :
         /\ returned' = Completed(returned, "embedding", ~o.threw)
         /\ IF o.threw
            THEN Throw(OtherError) /\ UNCHANGED <<calls, hv>>
            ELSE IF InvalidEmbeddingData(o.data)
            THEN /\ Throw(ApplicationError("Invalid embedding response from OpenAI"))
                 /\ hv' = [hv EXCEPT !.embeddingData = Received(o.data)]
                 /\ UNCHANGED calls
            ELSE /\ calls' = Issue(calls, "match")
                 /\ hv' = [hv EXCEPT !.embeddingData = Received(o.data)]
                 /\ pc' = "match"
                 /\ UNCHANGED res
    /\ UNCHANGED <<proc, req, upstream, sink, impl, sections, ctx, ci, ms, cl>>

InvalidPageSectionsOrEmpty(x) == x.kind # "array" \/ Len(x.items) = 0

\* const { error: matchError, data: pageSections } = await ...: the length of
\* the array received, none when what was received is not an array
PageSectionsLength(x) == IF x.kind = "array" THEN <<Len(x.items)>> ELSE <<>>

\* !pageSections || !Array.isArray(pageSections)
InvalidPageSections(x) == x.kind # "array"

\* The vector-store call returns: validation, context assembly, prompt, then
\* the generation call in the mode asked for.
MatchDone ==
    /\ pc = "match"
    /\ \E o \in MatchOutcomes :
         /\ returned' = Completed(returned, "match", ~o.error)
         /\ IF o.error
            THEN /\ Throw(ApplicationError("Failed to match page sections"))
                 /\ hv' = [hv EXCEPT !.pageSectionsLength = PageSectionsLength(o.data)]
                 /\ UNCHANGED calls
            ELSE IF InvalidPageSections(o.data)
            THEN /\ Throw(ApplicationError("No matching page sections found"))
                 /\ hv' = [hv EXCEPT !.pageSectionsLength = PageSectionsLength(o.data)]
                 /\ UNCHANGED calls
            ELSE LET c == InlineContext(o.data.items) IN
                 /\ hv' = [hv EXCEPT !.pageSectionsLength = PageSectionsLength(o.data),
                                     !.usedSections = c.usedSections,
                                     !.contextText = c.contextText]
                 /\ calls' = Issue(calls, IF hv.wantsStream THEN "stream" ELSE "completion")
                 /\ pc' = IF hv.wantsStream THEN "stream_create" ELSE "completion"
                 /\ UNCHANGED res
    /\ UNCHANGED <<proc, req, upstream, sink, impl, sections, ctx, ci, ms, cl>>

\* Non-streaming mode: the completion returns and the whole response is sent.
CompletionDone ==
    /\ pc = "completion"
    /\ \E o \in CompletionOutcomes :
         /\ returned' = Completed(returned, "completion", ~o.threw)
         /\ IF o.threw
            THEN Throw(OtherError)
            ELSE /\ res' = SendTextWithCitations(res, o.content, hv.usedSections,
                                                 hv.sanitizedQuery)
                 /\ pc' = "done"
    /\ ReportWrites
    /\ UNCHANGED <<proc, calls, hv, req, upstream, impl, sections, ctx, ci, ms, cl>>

\* Streaming mode: the create call returns the stream; headers and preamble.
\* The write of the preamble reports ready or not-ready as the socket
\* decides; the handler does not read the report.
StreamOpened ==
    /\ pc = "stream_create"
    /\ \E o \in StreamOutcomes :
         /\ returned' = Completed(returned, "stream", ~o.threw)
         /\ IF o.threw
            THEN Throw(OtherError) /\ UNCHANGED <<upstream, sink>>
            ELSE /\ upstream' = [open |-> TRUE, chunks |-> o.chunks, fails |-> o.fails,
                                 pos |-> 0]
                 /\ res' = WriteCitations(WritePlainTextHeaders(res), hv.usedSections,
                                          hv.sanitizedQuery)
                 /\ \E ok \in BOOLEAN : sink' = [sink EXCEPT !.needDrain = ~ok]
                 /\ pc' = "streaming"
    /\ UNCHANGED <<proc, calls, hv, req, impl, sections, ctx, ci, ms, cl>>

\* if (delta)
DeltaTruthy(delta) == delta # <<>> /\ delta[1] # ""

ForwardDeltaDropped(r, delta) == r

\* if (delta) { chunkCount++; res.write(delta) }
ForwardDelta(r, delta) ==
    IF DeltaTruthy(delta) THEN ResWrite(r, BodyChunk(<<delta[1]>>)) ELSE r

\* One iteration of for await (const chunk of responseStream): the stream
\* yields a chunk.  upstream.chunks are the chunks yielded so far.  The write
\* reports not-ready (false) when the sink is closed or still undrained, and
\* otherwise as the sink decides; the handler does not read the report.
StreamChunk ==
    /\ pc = "streaming"
    /\ Len(upstream.chunks) < MaxChunks
    /\ \E delta \in Deltas :
       /\ upstream' = [upstream EXCEPT !.chunks = Append(@, delta), !.pos = @ + 1]
       /\ res' = ForwardDelta(res, delta)
       /\ IF DeltaTruthy(delta)
          THEN \E ok \in (IF sink.closed \/ sink.needDrain THEN {FALSE} ELSE BOOLEAN) :
                  sink' = [sink EXCEPT !.needDrain = ~ok]
          ELSE UNCHANGED sink
    /\ UNCHANGED <<proc, pc, calls, hv, req, impl, sections, ctx, ci, ms, cl, returned>>

\* A trailer that reports no sources, whatever the preamble listed
StreamFinishCountingNone(r, usedSections) == ResEnd(ResWrite(r, TrailerChunk(0)))

\* res.write(END_CITATIONS trailer); res.end()
StreamFinish(r, usedSections) == ResEnd(ResWrite(r, TrailerChunk(Len(usedSections))))

\* The stream ends normally.
StreamEnd ==
    /\ pc = "streaming"
    /\ res' = StreamFinish(res, hv.usedSections)
    /\ pc' = "done"
    /\ ReportWrites
    /\ UNCHANGED <<proc, calls, hv, req, upstream, impl, sections, ctx, ci, ms, cl, returned>>

StreamCatchEndsSilently(r) == IF ~r.ended THEN ResEnd(r) ELSE r

StreamCatchSendsJson(r) == ResJson(r, 500, JsonBody("Streaming failed", <<>>))

\* catch (streamErr) { ... } around the streaming writes
StreamCatch(r) ==
    IF ~r.headersSent
    THEN ResJson(r, 500, JsonBody("Streaming failed", <<>>))
    ELSE IF ~r.ended
    THEN ResEnd(ResWrite(r, StreamErrorChunk))
    ELSE r

\* The stream's iterator throws.
StreamFails ==
    /\ pc = "streaming"
    /\ upstream' = [upstream EXCEPT !.fails = TRUE]
    /\ res' = StreamCatch(res)
    /\ pc' = "done"
    /\ ReportWrites
    /\ UNCHANGED <<proc, calls, hv, req, impl, sections, ctx, ci, ms, cl, returned>>

\* The client closes the connection while the answer is streamed.
ClientDisconnect ==
    /\ pc = "streaming"
    /\ ~sink.closed
    /\ sink' = [sink EXCEPT !.closed = TRUE]
    /\ UNCHANGED <<proc, pc, calls, hv, req, res, upstream, impl, sections, ctx, ci, ms, cl, returned>>

\* The socket's buffer empties: 'drain' is emitted.
SinkDrain ==
    /\ pc = "streaming"
    /\ sink.needDrain
    /\ ~sink.closed
    /\ sink' = [sink EXCEPT !.needDrain = FALSE]
    /\ UNCHANGED <<proc, pc, calls, hv, req, res, upstream, impl, sections, ctx, ci, ms, cl, returned>>

Next ==
    \/ HandleRequest
    \/ ModerationDone
    \/ IntentDone
    \/ NonLegalDone
    \/ EmbeddingDone
    \/ MatchDone
    \/ CompletionDone
    \/ StreamOpened
    \/ StreamChunk
    \/ StreamEnd
    \/ StreamFails
    \/ ClientDisconnect
    \/ SinkDrain

Spec == Init /\ [][Next]_vars

\* The external calls of a request: the handler with its inline classifier,
\* and the library classifier run on its own.
InitPipeline == Init \/ InitIntent

NextPipeline == Next \/ NextIntent

SpecPipeline == InitPipeline /\ [][NextPipeline]_vars

(***************************************************************************)
(* Properties of context assembly.                                         *)
(***************************************************************************)
TokenCounts(used) == [k \in 1..Len(used) |-> used[k].token_count]

\* Indices (1-based) of the candidates that carry content, in order.
ContentBearing(secs) ==
    SelectSeq([k \in 1..Len(secs) |-> k], LAMBDA k : ~NoContent(secs[k]))

\* C1: at every step of context assembly (both copies of the loop) the sum
\* of token_count over usedSections is strictly below 1500 and equals the
\* running tokenCount, so a passage that would bring the total to exactly
\* 1500 is never included.
C1_TokenSumBelowCeiling ==
    /\ SumSeq(TokenCounts(ctx.usedSections)) < TOKEN_CEILING
    /\ ctx.tokenCount = SumSeq(TokenCounts(ctx.usedSections))

\* C1 witness: the loop has stopped at a passage that would have brought a
\* non-zero running total to exactly 1500.
C1_Witness ==
    /\ ctx.done
    /\ ctx.i < Len(sections)
    /\ Len(ctx.usedSections) >= 1
    /\ ~NoContent(sections[ctx.i + 1])
    /\ ctx.tokenCount + EncodeTokensLength(sections[ctx.i + 1].content[1])
         = TOKEN_CEILING

\* C2 as stated: the k-th used passage is the k-th candidate, also for
\* candidate lists with null or content-less entries.
C2_UsedIsPrefixOfCandidates ==
    \A k \in 1..Len(ctx.usedSections) :
        /\ ~NoContent(sections[k])
        /\ ctx.usedSections[k] = UsedSection(impl, sections[k], k - 1)

\* C2 amended: usedSections is a prefix, in original order, of the
\* candidates that carry content (null and content-less entries are skipped):
\* the k-th used passage is the k-th content-bearing candidate.
C2_UsedIsPrefixOfContentBearing ==
    LET idx == ContentBearing(sections) IN
    /\ Len(ctx.usedSections) <= Len(idx)
    /\ \A k \in 1..Len(ctx.usedSections) :
          ctx.usedSections[k] = UsedSection(impl, sections[idx[k]], idx[k] - 1)

\* C2 witness: the loop has ended by break after skipping a content-less
\* entry and including a later passage.
C2_Witness ==
    /\ ctx.done
    /\ ctx.i < Len(sections)
    /\ Len(ctx.usedSections) >= 1
    /\ \E k \in 1..ctx.i : NoContent(sections[k])
    /\ ContentBearing(sections)[Len(ctx.usedSections)] > Len(ctx.usedSections)

\* The passage is there and its content is a non-empty string.
HasContent(s) == ~s.isNull /\ s.content # <<>> /\ s.content[1] # ""

\* Tokens of the content-bearing candidates before position k (1-based)
TokensBefore(secs, k) ==
    SumSeq([j \in 1..(k - 1) |->
              IF HasContent(secs[j])
              THEN EncodeTokensLength(secs[j].content[1]) ELSE 0])

\* The positions of the content-bearing candidates that would reach the
\* ceiling if every content-bearing candidate before them were included.
WouldReachCeiling(secs) ==
    {k \in 1..Len(secs) :
        /\ HasContent(secs[k])
        /\ TokensBefore(secs, k) + EncodeTokensLength(secs[k].content[1])
             >= TOKEN_CEILING}

\* The first of them: the first passage the loop rejects.
FirstRejected(secs) ==
    CHOOSE k \in WouldReachCeiling(secs) : \A j \in WouldReachCeiling(secs) : k <= j

\* C29: context assembly stops at the first content-bearing passage that
\* would reach the ceiling: the loop never moves past it, so no later passage
\* is examined or included, even one small enough to fit; at loop exit the
\* used passages are the content-bearing ones before it.
C29_StopsAtFirstRejected ==
    WouldReachCeiling(sections) # {} =>
        LET f == FirstRejected(sections)
            before == {k \in 1..(f - 1) : HasContent(sections[k])}
        IN /\ ctx.i < f
           /\ Len(ctx.usedSections) <= Cardinality(before)
           /\ ctx.done => /\ ctx.i = f - 1
                          /\ Len(ctx.usedSections) = Cardinality(before)

\* The loop has stopped at a rejected passage while a later candidate would
\* have fitted in the remaining budget.
C29_Witness ==
    /\ ctx.done
    /\ WouldReachCeiling(sections) # {}
    /\ Len(ctx.usedSections) >= 1
    /\ \E j \in (FirstRejected(sections) + 1)..Len(sections) :
          /\ HasContent(sections[j])
          /\ ctx.tokenCount + EncodeTokensLength(sections[j].content[1])
               < TOKEN_CEILING

\* Where the loop stops examining candidates: the first rejected passage, or
\* past the end of the list.
StopPosition(secs) ==
    IF WouldReachCeiling(secs) = {} THEN Len(secs) + 1 ELSE FirstRejected(secs)

\* Positions of the content-bearing candidates before the loop stops: the
\* passages that fit the budget.
FittingPassages(secs) ==
    SelectSeq([k \in 1..Len(secs) |-> k],
              LAMBDA k : k < StopPosition(secs) /\ HasContent(secs[k]))

\* C31: a passage with non-empty content that fits the budget is included
\* whatever metadata it lacks: at loop exit the used passages are exactly the
\* content-bearing candidates before the loop stopped, and a missing id,
\* path, heading or similarity is recorded as the passage's positional index,
\* 'unknown', the placeholder title and 0.
C31_MissingMetadataNeverExcludes ==
    ctx.done =>
        LET fit == FittingPassages(sections) IN
        /\ Len(ctx.usedSections) = Len(fit)
        /\ \A j \in 1..Len(fit) :
              LET s == sections[fit[j]]
                  u == ctx.usedSections[j]
              IN /\ s.id = <<>> => u.id = fit[j] - 1
                 /\ s.path = <<>> => u.path = "unknown"
                 /\ s.heading = <<>> => u.heading = "NO_TITLE"
                 /\ s.similarity = <<>> => u.similarity = 0
                 /\ u.token_count = EncodeTokensLength(s.content[1])

\* A passage without any metadata, second in the list, has been included
\* under its index 1.
C31_Witness ==
    /\ ctx.done
    /\ Len(sections) >= 2
    /\ sections[2] = Section(<<>>, <<>>, <<>>, <<>>, <<"c1">>)
    /\ Len(ctx.usedSections) = 2
    /\ ctx.usedSections[2].id = 1
    /\ ctx.usedSections[2].path = "unknown"

\* The two results that matter to the caller
ContextResult(c) == [contextText |-> c.contextText, usedSections |-> c.usedSections]

\* C36: buildContextFromSections (rag.ts) and the handler's inline loop are
\* equivalent: for every candidate list they produce the same contextText and
\* the same usedSections, also for passages whose id is 0 or whose path or
\* heading is the empty string.
C36_LoopsEquivalent ==
    ctx.done =>
        /\ ContextResult(ctx) =
             ContextResult(IF impl = "lib" THEN BuildContextFromSections(sections)
                           ELSE InlineContext(sections))
        /\ ContextResult(BuildContextFromSections(sections))
             = ContextResult(InlineContext(sections))

\* The two loops agree on the context text, on which passages are used and on
\* their sizes: they differ in recorded metadata only.
C36_SameTextAndPassages ==
    ctx.done =>
        LET a == BuildContextFromSections(sections)
            b == InlineContext(sections)
        IN /\ a.contextText = b.contextText
           /\ a.tokenCount = b.tokenCount
           /\ TokenCounts(a.usedSections) = TokenCounts(b.usedSections)

(***************************************************************************)
(* Properties of the handler's responses.                                  *)
(***************************************************************************)
\* How many chunks of a kind were written to the response.
CountKind(wire, kind) == Cardinality({k \in 1..Len(wire) : wire[k].kind = kind})

\* The body chunks that forwarding the deltas, in order, puts on the wire.
Forwarded(deltas) ==
    LET kept == SelectSeq(deltas, LAMBDA d : d # <<>> /\ d[1] # "")
    IN  [k \in 1..Len(kept) |-> BodyChunk(<<kept[k][1]>>)]

Preamble == <<CitationsChunk(hv.usedSections, hv.sanitizedQuery)>>

Trailer == <<TrailerChunk(Len(hv.usedSections))>>

LastCall == IF calls = <<>> THEN "" ELSE calls[Len(calls)]

\* The stream threw after it was opened (headers and preamble are out).
StreamFailed == pc = "done" /\ upstream.open /\ upstream.fails

\* The stream ran to its normal end.
StreamCompleted == pc = "done" /\ upstream.open /\ ~upstream.fails

FirstResultFlagged == hv.results # <<>> /\ hv.results[1].flagged

\* C3: when the first moderation result is flagged the response is 400 with
\* the error message and the flagged categories, and the moderation call is
\* the only external call issued for the request.
C3_FlaggedStopsPipeline ==
    FirstResultFlagged =>
       /\ pc = "done"
       /\ calls = <<"moderation">>
       /\ res.statusCode = 400
       /\ res.json = <<JsonBody("Flagged content",
                         <<[flagged |-> TRUE,
                            categories |-> hv.results[1].categories]>>)>>
       /\ res.wire = <<>>

\* C3 witness: a request whose first moderation result is flagged for
\* violence has been answered with the 400.
C3_Witness ==
    /\ FirstResultFlagged
    /\ pc = "done"
    /\ res.statusCode = 400
    /\ hv.results[1].categories = {"violence"}

\* C4 as stated: every finished plain-text response holds exactly one
\* citation preamble and exactly one END_CITATIONS trailer, on every path.
C4_OnePreambleOneTrailer ==
    (pc = "done" /\ res.contentType = "text/plain") =>
       /\ CountKind(res.wire, "citations") = 1
       /\ CountKind(res.wire, "trailer") = 1

\* C4 amended: every finished plain-text response holds exactly one citation
\* preamble, written first; it holds exactly one END_CITATIONS trailer,
\* written last, on every path but a stream that fails mid-way, which holds
\* no trailer and ends with the STREAM_ERROR marker instead.
C4_OnePreambleTrailerUnlessStreamFails ==
    (pc = "done" /\ res.contentType = "text/plain") =>
       /\ CountKind(res.wire, "citations") = 1
       /\ res.wire[1].kind = "citations"
       /\ IF StreamFailed
          THEN /\ CountKind(res.wire, "trailer") = 0
               /\ CountKind(res.wire, "stream_error") = 1
               /\ res.wire[Len(res.wire)].kind = "stream_error"
          ELSE /\ CountKind(res.wire, "trailer") = 1
               /\ CountKind(res.wire, "stream_error") = 0
               /\ res.wire[Len(res.wire)].kind = "trailer"

\* C4 witness: a stream that failed after a delta was forwarded has been
\* closed.
C4_Witness ==
    /\ StreamFailed
    /\ res.contentType = "text/plain"
    /\ res.ended
    /\ CountKind(res.wire, "body") >= 1

\* C5: the writes of a successful response come in the order headers,
\* preamble, body, trailer, close.  While streaming, the wire is the preamble
\* followed by every non-empty delta consumed so far, in upstream order; at
\* the normal end the trailer follows and the channel is closed.  In
\* non-streaming mode nothing is written while the model call is pending, and
\* the response is then preamble, the one body, trailer, close.
C5_WriteOrder ==
    /\ pc = "streaming" =>
          /\ res.contentType = "text/plain"
          /\ ~res.ended
          /\ res.wire = Preamble \o Forwarded(SubSeq(upstream.chunks, 1, upstream.pos))
    /\ StreamCompleted =>
          /\ res.contentType = "text/plain"
          /\ res.ended
          /\ res.wire = Preamble \o Forwarded(upstream.chunks) \o Trailer
    /\ pc \in {"completion", "stream_create"} =>
          /\ ~res.headersSent
          /\ res.wire = <<>>
    /\ (pc = "done" /\ LastCall = "completion" /\ res.json = <<>>) =>
          /\ res.contentType = "text/plain"
          /\ res.ended
          /\ Len(res.wire) = 3
          /\ res.wire[1] = Preamble[1]
          /\ res.wire[2].kind = "body"
          /\ res.wire[3] = Trailer[1]

\* C5 witness: a stream of three chunks, one of them without text, has
\* completed with two deltas forwarded, "b" before "a".
C5_Witness ==
    /\ StreamCompleted
    /\ Len(upstream.chunks) = 3
    /\ \E k \in 1..3 : upstream.chunks[k] \in {<<>>, <<"">>}
    /\ Len(res.wire) = 4
    /\ res.wire[2].text = <<"b">>
    /\ res.wire[3].text = <<"a">>
    /\ hv.usedSections # <<>>

\* C6: when the stream fails after the plain-text headers were sent, the
\* STREAM_ERROR marker is written last and the channel closed; the status
\* stays 200 and no JSON body is sent or attempted.
C6_StreamErrorMarker ==
    StreamFailed =>
       /\ res.wire[Len(res.wire)] = StreamErrorChunk
       /\ CountKind(res.wire, "stream_error") = 1
       /\ res.ended
       /\ res.statusCode = 200
       /\ res.contentType = "text/plain"
       /\ res.json = <<>>
       /\ res.fault = "none"

\* C6 witness: the stream failed before any delta arrived.
C6_Witness ==
    /\ StreamFailed
    /\ upstream.chunks = <<>>
    /\ res.wire = Preamble \o <<StreamErrorChunk>>

\* C7: a JSON error body is sent only on a response on which nothing of the
\* plain-text protocol was written, no plain-text response carries a JSON
\* body, and no JSON send is attempted after the headers went out.
C7_JsonNeverMixedWithPlainText ==
    /\ res.json # <<>> =>
          /\ res.wire = <<>>
          /\ res.contentType = "application/json"
          /\ res.statusCode \in {400, 405, 500}
    /\ res.wire # <<>> => res.json = <<>> /\ res.contentType = "text/plain"
    /\ res.fault = "none"

\* C7 witness: the streaming create call threw in streaming mode, and the
\* request was answered with the JSON 500.
C7_Witness ==
    /\ pc = "done"
    /\ hv.wantsStream
    /\ LastCall = "stream"
    /\ res.json = <<JsonBody(GENERIC_ERROR, <<>>)>>
    /\ res.statusCode = 500

\* C8: once the sink is closed (the client disconnected) while the answer
\* is streamed, nothing more is written to the response: no delta and no
\* trailer.
C8_NoWriteAfterDisconnect ==
    [][sink.closed => res'.wire = res.wire]_vars

\* C9: while the sink is not ready (a write reported not-ready and no drain
\* was emitted since) no delta is written.
C9_NoDeltaBeforeDrain ==
    [][(pc = "streaming" /\ sink.needDrain /\ ~sink.closed)
          => CountKind(res'.wire, "body") = CountKind(res.wire, "body")]_vars

(***************************************************************************)
(* Properties of the handler's branches and of its external calls.         *)
(***************************************************************************)
GenerationCalls == {"completion", "stream"}

\* C11: when the classified intent is greeting or smalltalk the response is
\* the fixed template between a preamble with no sources and the trailer
\* "0 sources used", and the only calls issued are moderation and intent.
C11_GreetingShortCircuits ==
    hv.classifiedIntent \in {"greeting", "smalltalk"} =>
       /\ pc = "done"
       /\ calls = <<"moderation", "intent">>
       /\ res.wire = <<CitationsChunk(<<>>, hv.sanitizedQuery),
                       BodyChunk(GREETING_ANSWER),
                       TrailerChunk(0)>>
       /\ res.ended
       /\ res.contentType = "text/plain"
       /\ res.json = <<>>

\* C11 witness: a request classified as smalltalk has been answered.
C11_Witness ==
    /\ hv.classifiedIntent = "smalltalk"
    /\ pc = "done"
    /\ res.ended
    /\ Len(res.wire) = 3

\* C12: when the classified intent is non_legal or other exactly one
\* secondary model call is issued and no embedding or retrieval call; the
\* response carries no citations whether that call succeeds or fails, and
\* when it fails the body is the fixed apology-plus-handoff template.
C12_NonLegalBranch ==
    hv.classifiedIntent \in {"non_legal", "other"} =>
       /\ calls = <<"moderation", "intent", "nonlegal">>
       /\ pc \in {"nonlegal", "done"}
       /\ pc = "nonlegal" => (res.wire = <<>> /\ Len(returned) = 2)
       /\ pc = "done" =>
            /\ Len(returned) = 3
            /\ Len(res.wire) = 3
            /\ res.wire[1] = CitationsChunk(<<>>, hv.sanitizedQuery)
            /\ res.wire[2].kind = "body"
            /\ (res.wire[2].text = NON_LEGAL_FALLBACK) <=> ~returned[3].ok
            /\ res.wire[3] = TrailerChunk(0)
            /\ res.ended
            /\ res.contentType = "text/plain"
            /\ res.json = <<>>

\* C12 witness: the secondary call of a request classified as other failed
\* and the request has been answered.
C12_Witness ==
    /\ hv.classifiedIntent = "other"
    /\ pc = "done"
    /\ Len(returned) = 3
    /\ ~returned[3].ok
    /\ res.ended

\* Retrieval returned the empty list.
EmptyRetrieval == hv.pageSectionsLength = <<0>>

\* C14: when retrieval returns the empty list the request is not an error:
\* the context text and usedSections are empty, the generation call is
\* issued, and a response whose generation succeeds carries a preamble with
\* sources [] and the trailer "0 sources used".
C14_EmptyRetrievalProceeds ==
    EmptyRetrieval =>
       /\ hv.usedSections = <<>>
       /\ hv.contextText = <<>>
       /\ Len(calls) = 5
       /\ calls[5] \in GenerationCalls
       /\ (Len(returned) = 5 /\ returned[5].ok /\ pc = "done" /\ ~StreamFailed) =>
            /\ res.json = <<>>
            /\ res.wire[1] = CitationsChunk(<<>>, hv.sanitizedQuery)
            /\ res.wire[Len(res.wire)] = TrailerChunk(0)
            /\ res.ended
       /\ res.json # <<>> => (Len(returned) = 5 /\ ~returned[5].ok)

\* C14 witness: an empty retrieval has been answered in non-streaming mode.
C14_Witness ==
    /\ EmptyRetrieval
    /\ pc = "done"
    /\ calls[5] = "completion"
    /\ returned[5].ok
    /\ Len(res.wire) = 3

\* The stage of the pipeline an external call belongs to.
Stage(call) ==
    CASE call = "moderation" -> 1
      [] call = "intent"     -> 2
      [] call = "nonlegal"   -> 3
      [] call = "embedding"  -> 3
      [] call = "match"      -> 4
      [] call = "completion" -> 5
      [] call = "stream"     -> 5

\* C15: the external calls of a request are strictly ordered and never
\* overlap: every call but the last issued has completed, at most one call is
\* pending, the calls follow the pipeline's stages, context assembly happens
\* after retrieval completed and the generation call is issued after it.
C15_CallsSequential ==
    /\ Len(returned) <= Len(calls)
    /\ Len(calls) <= Len(returned) + 1
    /\ \A k \in 1..Len(returned) : returned[k].call = calls[k]
    /\ \A j, k \in 1..Len(calls) : j < k => Stage(calls[j]) < Stage(calls[k])
    /\ (hv.pageSectionsLength # <<>> \/ hv.usedSections # <<>>) =>
          (Len(returned) >= 4 /\ returned[4].call = "match" /\ returned[4].ok)
    /\ (\E k \in 1..Len(calls) : calls[k] \in GenerationCalls) =>
          hv.pageSectionsLength # <<>>

\* C15 witness: a request ran through all five calls.
C15_Witness ==
    /\ pc = "done"
    /\ Len(calls) = 5
    /\ Len(returned) = 5
    /\ returned[5].ok
    /\ hv.usedSections # <<>>

\* C20: when the request omits the stream flag the handler answers in
\* streaming mode; the non-streaming generation call is issued only when the
\* caller explicitly disabled streaming.
C20_StreamingByDefault ==
    \A k \in 1..Len(calls) :
       calls[k] = "completion" =>
          req.body[1].stream \in {<<"bool:false">>, <<"str:false">>}

(***************************************************************************)
(* Properties of the external calls of a request.                          *)
(***************************************************************************)
CallNames ==
    {"moderation", "intent", "nonlegal", "embedding", "match", "completion", "stream"}

IssuedTimes(call) == Cardinality({k \in 1..Len(calls) : calls[k] = call})

HandlerCallsOnce ==
    /\ \A call \in CallNames : IssuedTimes(call) <= 1
    /\ IssuedTimes("completion") + IssuedTimes("stream") <= 1

\* C16 as stated: no external call is retried; moderation, classification,
\* embedding, retrieval and generation are each issued at most once in a
\* request and a failed call is never issued again.
C16_NoCallReissued ==
    /\ HandlerCallsOnce
    /\ ci.pc # "idle" => ci.calls <= 1

\* C16 amended: moderation, embedding, retrieval and generation are each
\* issued at most once and the handler's inline classifier calls once; the
\* library classifier issues its call a second time, once, after a failed
\* first attempt, and never a third time.
C16_OnlyClassifierFallbackReissues ==
    /\ HandlerCallsOnce
    /\ ci.pc # "idle" =>
          /\ ci.calls <= 2
          /\ ci.calls = 2 => ci.impl = "lib"
          /\ ci.impl = "inline" => ci.calls <= 1
          /\ ci.pc = "fallback" => ci.calls = 1

C16_Witness ==
    /\ ci.pc = "returned"
    /\ ci.impl = "lib"
    /\ ci.calls = 2
    /\ ci.callThrew

(***************************************************************************)
(* Properties of retrieval in the library.                                 *)
(***************************************************************************)
\* C13: an absent or non-array result of the vector-store match call fails
\* the request; it is never turned into an empty passage list that goes on
\* to context assembly.
C13_AbsentResultRejected ==
    (ms.pc \in {"hydrate", "returned"} /\ ~ms.error) => ms.data.kind = "array"

\* The page lookup failed or returned no data.
LookupFailed == ms.lookup # <<>> /\ (ms.lookup[1].error \/ ms.lookup[1].data.kind # "array")

\* C37: hydrateSectionsWithPagePath changes nothing but missing paths: a
\* section keeps the path it has, every other field is as it was, and the
\* sections come back unchanged when none has a numeric page_id or when the
\* page lookup fails or returns no data.
C37_HydrationFillsMissingPathsOnly ==
    ms.pc = "returned" =>
        /\ Len(ms.out) = Len(ms.sections)
        /\ \A k \in 1..Len(ms.sections) :
              /\ [ms.out[k] EXCEPT !.path = ms.sections[k].path] = ms.sections[k]
              /\ ms.sections[k].path # <<>> => ms.out[k].path = ms.sections[k].path
        /\ (\A k \in 1..Len(ms.sections) : ms.sections[k].page_id = <<>>)
              => (ms.out = ms.sections /\ ms.lookup = <<>>)
        /\ LookupFailed => ms.out = ms.sections

\* A section with its own path has kept it although the lookup returned a
\* different path for its page, while a section of the same page without a
\* path got the page's.
C37_Witness ==
    /\ ms.pc = "returned"
    /\ Len(ms.out) = 2
    /\ ms.sections[1].page_id = <<1>> /\ ms.sections[1].path = <<"/own">>
    /\ ms.sections[2].page_id = <<1>> /\ ms.sections[2].path = <<>>
    /\ ms.out[1].path = <<"/own">>
    /\ ms.out[2].path = <<"/one">>

(***************************************************************************)
(* Properties of the citation protocol on the client.                      *)
(***************************************************************************)
\* C17: citation round trip.  For every usedSections list and every query,
\* the citations parseCitations decodes from the preamble writeCitations
\* wrote are the encoded list, in order and field by field.
C17_CitationRoundTrip ==
    cl.pc = "decoded" => cl.decoded.citations = cl.sources

\* The response is complete and nothing is left to run on the client.
ClientSettled == cl.pc = "receiving" /\ cl.finished /\ ~cl.effectDue

\* What the message can end as when the body arrives in one piece: the
\* streaming effect and onFinish both run once on the whole body, in
\* either order.
WholeDeliveryResults(body) ==
    {OnFinishOn(StreamingEffectOn(LoadingMessage, body), body),
     StreamingEffectOn(OnFinishOn(LoadingMessage, body), body)}

MarkerPieces == {"<!-- ", "CITATIONS: ", "END_CITATIONS: ", " --", ">"}

NoMarkerLeft(content) == \A k \in 1..Len(content) : content[k] \notin MarkerPieces

\* C18: decoder chunk-independence.  For a body split at any offset and
\* delivered in two pieces, the final citations and prose are those of the
\* body delivered whole, and no piece of a comment marker is left in the
\* final prose.
C18_ChunkIndependentDecoding ==
    ClientSettled =>
        /\ cl.message \in WholeDeliveryResults(cl.body)
        /\ NoMarkerLeft(cl.message.content)

(***************************************************************************)
(* Properties of the conversation history.                                 *)
(***************************************************************************)
\* s is what is left of h after turns were discarded from its old end.
IsMostRecentPart(s, h) ==
    /\ Len(s) <= Len(h)
    /\ \A k \in 1..Len(s) : s[k] = h[Len(h) - Len(s) + k]

Smaller(a, b) == IF a < b THEN a ELSE b

RequestedLimit == IF cl.request[1].historyLimit = <<>> THEN 3 ELSE cl.request[1].historyLimit[1]

\* C19: the history that reaches the prompt is the most recent N turns the
\* caller supplied, in their original order, the older ones discarded first;
\* N is the requested limit (3 when none is requested) and never more than
\* 10.
C19_MostRecentTurnsReachPrompt ==
    (cl.request # <<>> /\ cl.prompted) =>
        LET h == cl.request[1].history
        IN /\ IsMostRecentPart(cl.promptHistory, h)
           /\ Len(cl.promptHistory) = Smaller(Len(h), Smaller(RequestedLimit, 10))

\* What the dialog sends is the most recent turns of its messages that have
\* a text and are not loading, in their order, at most historyLimitDefault
\* of them; that count is not capped at 10.
C19_DialogSendsMostRecent ==
    (cl.request # <<>> /\ cl.fromClient) =>
        LET h == cl.request[1].history
            eligible == EligibleTurns(cl.read)
        IN /\ IsMostRecentPart(h, eligible)
           /\ Len(h) = Smaller(Len(eligible), HistoryLimitDefault(cl.env))

\* The dialog has sent more than 10 turns.
C19_DialogSendsMoreThanTen ==
    /\ cl.request # <<>>
    /\ cl.fromClient
    /\ Len(cl.request[1].history) > 10

(***************************************************************************)
(* Properties of request validation and error mapping.                     *)
(***************************************************************************)
\* The request reaches the validation of the body: POST, environment set.
ReachesValidation == req.method = "POST" /\ MissingEnv(req.env) = ""

\* The prompt is missing or empty once trimmed.
BlankPrompt ==
    \/ req.body = <<>>
    \/ req.body[1].prompt = <<>>
    \/ TrimPrompt(req.body[1].prompt[1]) = ""

\* C21: a request whose prompt is missing or empty after trimming is
\* rejected with 400 before any external call, and the normalized query
\* handed to moderation and the later stages is never the empty string.
C21_BlankPromptRejected ==
    /\ (ReachesValidation /\ BlankPrompt) =>
          /\ calls = <<>>
          /\ pc = "done" => res.statusCode = 400
    /\ calls # <<>> => hv.sanitizedQuery # ""

\* The await that settled last rejected, outside the non_legal branch (whose
\* own catch answers with the fallback text).
LastCallRejected ==
    /\ returned # <<>>
    /\ ~returned[Len(returned)].ok
    /\ returned[Len(returned)].call # "nonlegal"

\* The body of a JSON response, as a set (empty when none was sent).
JsonSent == {res.json[k] : k \in 1..Len(res.json)}

GenericFailure == res.statusCode = 500 /\ res.json = <<JsonBody(GENERIC_ERROR, <<>>)>>

\* C22: error mapping.  A UserError gives 400 with its message and data;
\* an ApplicationError and any other thrown failure, a missing environment
\* variable included, give 500 with the one generic message; no response
\* body carries the message of an upstream or internal failure.
C22_ErrorMapping ==
    /\ (pc = "done" /\ ReachesValidation /\ req.body = <<>>) =>
          (res.statusCode = 400 /\ res.json = <<JsonBody("Missing request data", <<>>)>>)
    /\ (pc = "done" /\ ReachesValidation /\ req.body # <<>> /\ NoQuery(req.body[1])) =>
          (res.statusCode = 400
           /\ res.json = <<JsonBody("Missing query in request data", <<>>)>>)
    /\ (pc = "done" /\ FirstResultFlagged) =>
          (res.statusCode = 400
           /\ res.json = <<JsonBody("Flagged content",
                                    <<[flagged |-> TRUE,
                                       categories |-> hv.results[1].categories]>>)>>)
    /\ (pc = "done" /\ req.method = "POST" /\ MissingEnv(req.env) # "") => GenericFailure
    /\ (pc = "done" /\ LastCallRejected) => GenericFailure
    /\ (pc = "done" /\ LastCall = "match" /\ hv.pageSectionsLength = <<>>) => GenericFailure
    /\ res.statusCode = 500 => GenericFailure
    /\ \A b \in JsonSent :
          b.error \in {"Method Not Allowed", "Missing request data",
                       "Missing query in request data", "Flagged content",
                       GENERIC_ERROR}

C22_Witness ==
    /\ pc = "done"
    /\ LastCallRejected
    /\ returned[Len(returned)].call = "embedding"
    /\ res.statusCode = 500

\* A container the handler received that is absent, not an array, or empty.
ReceivedInvalid(x) == x # <<>> /\ (x[1].kind # "array" \/ x[1].empty)

\* C23: for the moderation stage and the embedding stage alike, an absent,
\* non-array or empty result container fails the request with 500, and no
\* external call of a later stage is issued.
C23_InvalidContainerStops ==
    /\ ReceivedInvalid(hv.moderationResults) =>
          (pc = "done" /\ GenericFailure /\ calls = <<"moderation">>)
    /\ ReceivedInvalid(hv.embeddingData) =>
          (pc = "done" /\ GenericFailure /\ LastCall = "embedding")

C23_Witness ==
    /\ hv.embeddingData = <<[kind |-> "array", empty |-> TRUE]>>
    /\ pc = "done"
    /\ res.statusCode = 500

(***************************************************************************)
(* Properties of the process-wide configuration and client handles.        *)
(***************************************************************************)
\* The three getters alone: each cache is filled at most once, a getter that
\* returns hands out the object its first successful call returned, whatever
\* the environment has become, and a filled cache keeps that object.
GettersAreSingletons ==
    proc.pc = "running" =>
        /\ proc.built["config"] <= 1
        /\ proc.last # <<>> /\ ~proc.last[1].threw
               => proc.last[1].value = proc.first[proc.last[1].getter]
        /\ proc.first["getConfig"] # <<>>
               => proc.cachedConfig = proc.first["getConfig"]
        /\ proc.first["getOpenAIClient"] # <<>>
               => proc.openaiSingleton = proc.first["getOpenAIClient"]
        /\ proc.first["getServerSupabaseClient"] # <<>>
               => proc.supabaseSingleton = proc.first["getServerSupabaseClient"]

\* C24: the configuration, the OpenAI client and the Supabase client are each
\* constructed at most once per process; after the first successful call of a
\* getter every later call returns the identical object, and the cached value
\* is never reset or replaced.
C24_ConstructedAtMostOnce ==
    /\ GettersAreSingletons
    /\ proc.pc = "running" => \A k \in ObjectKinds : proc.built[k] <= 1

(***************************************************************************)
(* Properties of the dialog's persistence.                                 *)
(***************************************************************************)
\* The slot held a saved list with at least one entry.
NonEmptySavedList(stored) ==
    /\ stored # <<>>
    /\ stored[1].json # <<>>
    /\ stored[1].json[1].t = "array"
    /\ Len(stored[1].json[1].items) > 0

\* The slot held nothing, an empty list or a text that does not parse.
NothingToRestore(stored) ==
    \/ stored = <<>>
    \/ stored[1].json = <<>>
    \/ stored[1].json[1] = JsonArray(<<>>)

Restoring == cl.pc \in {"mounted", "restored", "saved", "rendered", "settled"}

\* C25: on load the message list is replaced by the persisted list only if the
\* storage slot held a non-empty saved list; with no saved value, an empty
\* saved list or an unparsable saved value the default greeting remains the
\* message list.
C25_RestoreOnlyNonEmptyList ==
    Restoring =>
        /\ (\/ cl.messages # <<DefaultGreeting>>
            \/ \E k \in 1..Len(cl.pending) : cl.pending[k] # <<DefaultGreeting>>)
               => NonEmptySavedList(cl.loaded)
        /\ NothingToRestore(cl.loaded)
               => /\ cl.messages = <<DefaultGreeting>>
                  /\ \A k \in 1..Len(cl.pending) : cl.pending[k] = <<DefaultGreeting>>

\* A saved list of two messages has replaced the greeting.
C25_Witness ==
    /\ Restoring
    /\ cl.pc = "settled"
    /\ Len(cl.messages) = 2
    /\ cl.messages[1].timestamp = JsDate(<<3>>)
    /\ cl.messages # <<DefaultGreeting>>

\* The slot held a saved list the restore effect can restore: it has entries
\* and none of them is null.
RestorableList(stored) ==
    /\ NonEmptySavedList(stored)
    /\ \A k \in 1..Len(stored[1].json[1].items) : stored[1].json[1].items[k].t # "null"

\* The messages of the saved list, as the restore effect rebuilds them.
SavedConversation(stored) ==
    [k \in 1..Len(stored[1].json[1].items) |->
        RestoreMessage(stored[1].json[1].items[k])]

\* Loading is over: the effects have run and no update waits for a render.
Loaded ==
    \/ cl.pc = "settled"
    \/ EffectsRan(cl) /\ cl.pending = <<>>

\* C35: a non-empty saved conversation is never lost at load: whatever the
\* interleaving of the restore effect and the save effect at mount, also
\* with the effects run twice, the message list ends up as the saved
\* conversation and the storage slot holds it.
C35_SavedConversationSurvives ==
    (Restoring /\ Loaded /\ RestorableList(cl.loaded)) =>
        cl.messages = SavedConversation(cl.loaded)

\* Without the second run of the effects the saved conversation is the
\* message list after loading.
C35_SurvivesSingleRun ==
    (Restoring /\ Loaded /\ ~cl.strict /\ RestorableList(cl.loaded)) =>
        cl.messages = SavedConversation(cl.loaded)

\* C33: every request reaches exactly one response completion, the end of the
\* plain-text channel or one JSON body, on every path: the response is never
\* completed twice, the handler has not returned without completing it, no
\* state before that is stuck, and no write is attempted on an ended response.
C33_ExactlyOneCompletion ==
    /\ res.endCalls <= 1
    /\ res.ended <=> res.endCalls = 1
    /\ res.lateWrites = 0
    /\ res.fault = "none"
    /\ pc = "done" => res.endCalls = 1
    /\ pc # "done" => ENABLED Next

\* A stream that failed mid-way has been completed once, by the catch.
C33_Witness ==
    /\ pc = "done"
    /\ res.endCalls = 1
    /\ res.wire # <<>>
    /\ res.wire[Len(res.wire)] = StreamErrorChunk

(***************************************************************************)
(* Properties of the trailer.                                              *)
(***************************************************************************)
\* The positions of the chunks of a kind written to the response.
WirePositions(kind) == {k \in 1..Len(res.wire) : res.wire[k].kind = kind}

\* C26: in every response that carries a trailer, the number n of
\* 'END_CITATIONS: n sources used' equals the length of the sources list in
\* the preamble of that same response.
C26_TrailerCountsPreambleSources ==
    \A k \in WirePositions("trailer") :
        /\ WirePositions("citations") = {1}
        /\ res.wire[k].n = Len(res.wire[1].sources)

\* A streamed answer over two sources has ended with its trailer.
C26_Witness ==
    /\ hv.wantsStream
    /\ res.ended
    /\ WirePositions("trailer") # {}
    /\ Len(res.wire[1].sources) = 2
    /\ \E k \in WirePositions("body") : TRUE

(***************************************************************************)
(* Properties of the intent branch table.                                  *)
(***************************************************************************)
\* The labels answered without retrieval
EarlyResponseLabels == {"greeting", "smalltalk", "non_legal", "other"}

\* The classification of this request has completed.
IntentClassified == \E k \in 1..Len(returned) : returned[k].call = "intent"

\* C28: every classified intent other than greeting, smalltalk, non_legal and
\* other (legal_question or an unrecognized label) makes the request proceed
\* to embedding and retrieval: the call after the classification is the
\* embedding call, nothing was answered before it, and the non-legal
\* completion is never issued.
C28_UnrecognizedLabelRetrieves ==
    (IntentClassified /\ hv.classifiedIntent \notin EarlyResponseLabels) =>
        /\ Len(calls) >= 3
        /\ calls[3] = "embedding"
        /\ IssuedTimes("nonlegal") = 0
        /\ pc = "embedding" => res = FreshResponse

\* The label "weird" has led to the vector search.
C28_Witness ==
    /\ IntentClassified
    /\ hv.classifiedIntent = "weird"
    /\ pc = "match"
    /\ LastCall = "match"

(***************************************************************************)
(* Properties of the order of passages.                                    *)
(***************************************************************************)
\* The list the vector store returned, after the ?? default.
Retrieved == IF ms.data.kind = "array" THEN ms.data.items ELSE <<>>

\* out holds the sections of secs, one for one and in the same order; a
\* section keeps its page and its own path.
SameOrderAndNumber(secs, out) ==
    /\ Len(out) = Len(secs)
    /\ \A k \in 1..Len(secs) :
          /\ out[k].page_id = secs[k].page_id
          /\ secs[k].path # <<>> => out[k].path = secs[k].path

\* used is made of entries of secs at increasing positions.
IsOrderedSubsequence(which, used, secs) ==
    \E f \in [1..Len(used) -> 1..Len(secs)] :
        /\ \A j, k \in 1..Len(used) : j < k => f[j] < f[k]
        /\ \A k \in 1..Len(used) :
              /\ ~NoContent(secs[f[k]])
              /\ used[k] = UsedSection(which, secs[f[k]], f[k] - 1)

\* C30: the order of the passages returned by the vector store is kept end
\* to end: matchSectionsForQuery returns the retrieved sections in the same
\* order and number, hydrated or not, and usedSections is an order-preserving
\* subsequence of the list given to context assembly.
C30_OrderPreserved ==
    /\ ms.pc = "returned" => SameOrderAndNumber(Retrieved, ms.out)
    /\ impl # "none" => IsOrderedSubsequence(impl, ctx.usedSections, sections)

\* Two sections of different pages have come back, the second with the path
\* of its page filled in.
C30_Witness ==
    /\ ms.pc = "returned"
    /\ Len(ms.out) = 2
    /\ Retrieved[1].page_id # Retrieved[2].page_id
    /\ Retrieved[2].path = <<>>
    /\ ms.out[2].path # <<>>

(***************************************************************************)
(* Properties of the response's headers and of its completion.             *)
(***************************************************************************)
\* C32: plain-text response headers are sent at most once per response:
\* writePlainTextHeaders writes nothing once headers were sent, calling it
\* twice is calling it once, and on no path of the handler does a header
\* block go out twice.
C32_HeadersSentAtMostOnce ==
    /\ res.headWrites <= 1
    /\ res.headersSent => WritePlainTextHeaders(res) = res
    /\ WritePlainTextHeaders(WritePlainTextHeaders(res)) = WritePlainTextHeaders(res)
    /\ res.headersSent <=> res.headWrites = 1

\* A streamed response has ended: it had its plain-text headers once, before
\* the preamble and the deltas.
C32_Witness ==
    /\ hv.wantsStream
    /\ res.ended
    /\ res.contentType = "text/plain"
    /\ res.headWrites = 1
    /\ Len(res.wire) >= 3

(***************************************************************************)
(* Properties of writing under backpressure.                               *)
(***************************************************************************)
\* C34: writeWithBackpressure always eventually returns: a call that waits
\* for 'drain' does not wait forever, also when the sink closes without
\* ever emitting 'drain'.
C34_WriteEventuallyReturns == (sink.pc = "awaiting") ~> (sink.pc # "awaiting")

\* As long as the sink stays open the wait ends: a call is never left
\* waiting on an open socket with nothing to send.
C34_OpenSinkDrains ==
    (sink.pc = "awaiting" /\ ~sink.closed) => (sink.buffered > 0 /\ sink.needDrain)

(***************************************************************************)
(* Properties of intent classification.                                    *)
(***************************************************************************)
\* The text tryParseIntentJson parses: the whole output if it is a JSON
\* text, else the brace-extracted part, if any.
ParsedText(raw) ==
    IF IsObjectText(raw) THEN <<raw>>
    ELSE IF BraceMatch(raw) # <<>> /\ IsObjectText(BraceMatch(raw)[1])
         THEN BraceMatch(raw) ELSE <<>>

\* No JSON could be parsed from the output.
Unparsable(raw) == ParsedText(raw) = <<>>

\* JSON was parsed and carries no (non-empty) intent.
LacksIntent(raw) ==
    /\ ParsedText(raw) # <<>>
    /\ \A k \in 1..Len(ParsedText(raw)[1]) :
          ParsedText(raw)[1][k] \notin (IntentTokens \ {"i:"})

HasConfidence(raw) ==
    /\ ParsedText(raw) # <<>>
    /\ \E k \in 1..Len(ParsedText(raw)[1]) : ParsedText(raw)[1][k] = "c"

\* Words and brace characters of explanatory prose
ProsePieces == {"p", "{", "}"}

\* The places <<a, b>> of a JSON object with a non-empty intent that has
\* prose, and nothing but prose, before and/or after it in the output.
WrappedObjects(raw) ==
    {w \in (1..Len(raw)) \X (1..Len(raw)) :
        /\ w[1] < w[2]
        /\ w[1] > 1 \/ w[2] < Len(raw)
        /\ IsObjectText(SubSeq(raw, w[1], w[2]))
        /\ \E k \in w[1]..w[2] : raw[k] \in IntentTokens \ {"i:"}
        /\ \A k \in 1..Len(raw) : (k < w[1] \/ k > w[2]) => raw[k] \in ProsePieces}

\* C27: when the classifier's output is a valid JSON object with an intent,
\* surrounded by explanatory prose that may itself contain brace characters,
\* the two-stage parse recovers that object's intent instead of the default.
C27_WrappedObjectRecovered ==
    (ci.pc = "returned" /\ ~ci.callThrew) =>
        \A w \in WrappedObjects(ci.output) :
            ci.intent = ObjectOf(SubSeq(ci.output, w[1], w[2])).intent[1]

\* The same over prose without brace characters: the extraction finds the
\* object.
C27_PlainProseRecovered ==
    (ci.pc = "returned" /\ ~ci.callThrew) =>
        \A w \in WrappedObjects(ci.output) :
            (\A k \in 1..Len(ci.output) :
                (k < w[1] \/ k > w[2]) => ci.output[k] = "p")
            => ci.intent = ObjectOf(SubSeq(ci.output, w[1], w[2])).intent[1]

\* C10 as stated: for every classifier outcome classification does not
\* throw, and whenever no intent could be parsed (call threw, output
\* unparsable, JSON lacks an intent) the result is
\* {intent: legal_question, confidence: 0}.
C10_DefaultWheneverNoIntent ==
    /\ ci.calls > 0 => ci.pc # "threw"
    /\ (ci.pc = "returned"
        /\ (ci.callThrew \/ Unparsable(ci.output) \/ LacksIntent(ci.output)))
       => (ci.intent = "legal_question" /\ ci.confidence = 0)

\* C10 amended: classification throws for no classifier outcome (the library
\* function rejects only before any classifier call, when an environment
\* variable of the configuration is missing); the intent is legal_question
\* whenever no intent could be parsed; the confidence is 0 when the call
\* threw or nothing could be parsed, and is the parsed number when the JSON
\* carries a numeric confidence (also when it lacks an intent).
C10_ClassificationAbsorbed ==
    /\ ci.pc = "threw" =>
          (ci.calls = 0 /\ \E n \in EnvNames : proc.env[n] \in {<<>>, <<"">>})
    /\ ci.pc = "returned" =>
         /\ (ci.callThrew \/ Unparsable(ci.output) \/ LacksIntent(ci.output))
               => ci.intent = "legal_question"
         /\ (ci.callThrew \/ Unparsable(ci.output)) => ci.confidence = 0
         /\ (~ci.callThrew /\ LacksIntent(ci.output)) =>
               ci.confidence = (IF HasConfidence(ci.output) THEN 90 ELSE 0)

\* C10 witness: classifyIntentKorean has returned the default after its
\* fallback call's output had a brace-extracted part that is not valid JSON.
C10_Witness ==
    /\ ci.pc = "returned"
    /\ ci.impl = "lib"
    /\ ci.calls = 2
    /\ ~ci.callThrew
    /\ ~IsObjectText(ci.output)
    /\ BraceMatch(ci.output) # <<>>
    /\ ~IsObjectText(BraceMatch(ci.output)[1])
    /\ ci.intent = "legal_question"
    /\ ci.confidence = 0

====
